---- MODULE Spec2Model ----
(***************************************************************************)
(* Credit-statement accrual engine of cash-flow-tracker-api.               *)
(*                                                                         *)
(* Dates are day numbers (days since 1970-01-01) of a calendar date; a JS  *)
(* Date built with the local constructor new Date(y, m, d) is the day      *)
(* number of its local calendar day.  Money is in integer cents; the       *)
(* unrounded interest figures of the calculator are in 1/100 of a cent.    *)
(* Rates are scaled by 10000 (0.18 is 1800, the percentage 18 is 180000).  *)
(* A sheet cell or an optional parameter is a sequence: <<>> when blank,   *)
(* <<v>> when it holds v.                                                  *)
(***************************************************************************)
EXTENDS Integers, Sequences, FiniteSets, TLC

VARIABLES
    tz,        \* offset of the server's local time zone from UTC: "west", "utc", "east"
    today,     \* the local calendar day new Date() falls on
    debts,     \* the Debts sheet: debt id -> row
    expenses,  \* the Expenses sheet: sequence of rows
    history,   \* the CreditHistory sheet: sequence of records, in row order
    inv,       \* per invocation of accrueDebtInternal: position and locals
    started,   \* number of invocations started so far
    users,     \* the user store: tenant -> sheet id, access token, refresh token
    ledgers,   \* per tenant sheet: the debts that have a statement dated today
    batch,     \* the run of processDebtAccruals: position, locals and totals
    turns,     \* per tenant: how its turn in the batch run went
    req,       \* the HTTP request of listUserSheets / validateSheet in progress
    config,    \* config.scheduledTasks: whether the scheduled tasks are enabled
    tasks,     \* ScheduledTasksService.tasks: the cron tasks start() has pushed
    categories,\* the Categories sheet of each spreadsheet: id -> name
    sheetIds,  \* the sheet id column of the user store: tenant -> id, "" when blank
    http       \* the HTTP request of the other handlers in progress

\* the state of the scheduler and of the session handlers
authVars == <<users, ledgers, batch, turns, req>>

\* the state of the scheduler's task list and of the category, sheet id and
\* installment handlers
serverVars == <<config, tasks, categories, sheetIds, http>>

vars == <<tz, today, debts, expenses, history, inv, started, authVars, serverVars>>

\* where the server's local time zone lies from UTC
TimeZones == {"utc", "west", "east"}

----------------------------------------------------------------------------
(* Bounds *)

MaxInvocations == 2

\* rows of the Expenses sheet when the sheet itself is the input
MaxRows == 3

----------------------------------------------------------------------------
(* Calendar: JavaScript Date arithmetic on local calendar days *)

Min(a, b) == IF a < b THEN a ELSE b
Max(a, b) == IF a > b THEN a ELSE b

IsLeap(y) == (y % 4 = 0 /\ y % 100 # 0) \/ y % 400 = 0

LeapsBefore(y) == ((y - 1) \div 4) - ((y - 1) \div 100) + ((y - 1) \div 400)

\* day number of January 1st of year y
DaysBeforeYear(y) == 365 * (y - 1970) + LeapsBefore(y) - LeapsBefore(1970)

MonthLength(y, m) ==
    IF m = 1 THEN (IF IsLeap(y) THEN 29 ELSE 28)
    ELSE IF m \in {3, 5, 8, 10} THEN 30 ELSE 31

\* days of year y before its month m (0-based)
DaysBeforeMonth(y, m) ==
    <<0, 31, 59, 90, 120, 151, 181, 212, 243, 273, 304, 334>>[m + 1]
        + (IF m > 1 /\ IsLeap(y) THEN 1 ELSE 0)

\* new Date(y, m, d): month and day overflow are normalised (m = -1 is
\* December of y - 1, d = 0 is the last day of the month before)
MakeDate(y, m, d) ==
    LET yy == y + (m \div 12)
        mm == m % 12
    IN  DaysBeforeYear(yy) + DaysBeforeMonth(yy, mm) + (d - 1)

Years == 2023 .. 2026

\* Date.prototype.getFullYear / getMonth / getDate, computed from the day number
YearOfDay(n) ==
    CHOOSE y \in Years : DaysBeforeYear(y) <= n /\ n < DaysBeforeYear(y + 1)

MonthOfDay(n) ==
    LET y == YearOfDay(n)
    IN  CHOOSE m \in 0 .. 11 :
            /\ MakeDate(y, m, 1) <= n
            /\ n < MakeDate(y, m + 1, 1)

\* the days the model's dates fall on, and their calendar fields (a table,
\* so that the fields of a day are computed once)
CalendarDays == MakeDate(2023, 9, 1) .. MakeDate(2025, 11, 31)

Calendar ==
    [n \in CalendarDays |->
        [y |-> YearOfDay(n), m |-> MonthOfDay(n),
         d |-> n - MakeDate(YearOfDay(n), MonthOfDay(n), 1) + 1]]

getFullYear(n) == Calendar[n].y
getMonth(n) == Calendar[n].m
getDate(n) == Calendar[n].d

\* new Date(y, m + 1, 0).getDate(): the length of month m of year y
LastDayOfMonth(y, m) == getDate(MakeDate(y, m + 1, 0))

\* const dayClamp = (y, m, d) => Math.min(Math.max(1, d), new Date(y, m + 1, 0).getDate())
dayClamp(y, m, d) == Min(Max(1, d), LastDayOfMonth(y, m))

\* Date.prototype.toISOString().slice(0, 10) of a local-midnight Date: the
\* UTC calendar day of local midnight, one day earlier east of Greenwich
toISODate(d) == IF tz = "east" THEN d - 1 ELSE d

\* dateOnly(new Date('YYYY-MM-DD')): the string is parsed as UTC midnight,
\* whose local calendar day is one day earlier west of Greenwich
ParseDateParam(d) == IF tz = "west" THEN d - 1 ELSE d

\* parseDateString('YYYY-MM-DD'): components go to the local constructor
parseDateString(d) == MakeDate(getFullYear(d), getMonth(d), getDate(d))

IsFinite(cell) == cell # <<>>


----------------------------------------------------------------------------
(* Date resolution of accrueDebtInternal (steps 2 to 4 of the orchestrator) *)

\* nextDateForDayOfMonth(day, from) of utils/finance.js: the next date, from
\* itself included, whose day-of-month is day clamped to its month
nextDateForDayOfMonth(day, from) ==
    LET y == getFullYear(from)
        m == getMonth(from)
        thisMonth == MakeDate(y, m, dayClamp(y, m, day))
    IN  IF thisMonth >= from THEN thisMonth
        ELSE MakeDate(y, m + 1, dayClamp(y, m + 1, day))

\* a period parameter: kind "none" (absent), "nomatch" (fails /^\d{4}-\d{2}$/),
\* "ym" (matches; y and mm are the parsed numbers, mm as written, 1-based)
NoPeriod == [kind |-> "none", y |-> 0, mm |-> 0]
BadPeriod == [kind |-> "nomatch", y |-> 0, mm |-> 0]
YM(y, mm) == [kind |-> "ym", y |-> y, mm |-> mm]

\* periodParam && /^\d{4}-\d{2}$/.test(String(periodParam))
PeriodMatches(period) == period.kind = "ym"

\* m = parseInt(mStr, 10) - 1; m < 0 || m > 11 throws ApiError(400)
PeriodOutOfRange(period) == period.mm - 1 < 0 \/ period.mm - 1 > 11

\* the cutoff day taken as it is, not clamped to the month
PeriodStatementDateUnclamped(period, cutOffDay) ==
    LET y == period.y
        m == period.mm - 1
    IN  IF IsFinite(cutOffDay)
        THEN MakeDate(y, m, cutOffDay[1])
        ELSE MakeDate(y, m + 1, 0)

\* statementDate of an explicit period
PeriodStatementDate(period, cutOffDay) ==
    LET y == period.y
        m == period.mm - 1
    IN  IF IsFinite(cutOffDay)
        THEN MakeDate(y, m, dayClamp(y, m, cutOffDay[1]))
        ELSE MakeDate(y, m + 1, 0)

\* the current month's cutoff taken whatever the base day
BaseStatementDateCurrentMonth(base, cutOffDay) ==
    IF IsFinite(cutOffDay)
    THEN MakeDate(getFullYear(base), getMonth(base),
                  dayClamp(getFullYear(base), getMonth(base), cutOffDay[1]))
    ELSE MakeDate(getFullYear(base), getMonth(base), 0)

\* statementDate derived from the base date
BaseStatementDate(base, cutOffDay) ==
    IF IsFinite(cutOffDay)
    THEN LET y == getFullYear(base)
             m == getMonth(base)
             currentMonthCut == MakeDate(y, m, dayClamp(y, m, cutOffDay[1]))
             prevMonth == MakeDate(y, m - 1, 1)
         IN  IF getDate(base) >= getDate(currentMonthCut)
             THEN currentMonthCut
             ELSE MakeDate(getFullYear(prevMonth), getMonth(prevMonth),
                           dayClamp(getFullYear(prevMonth), getMonth(prevMonth),
                                    cutOffDay[1]))
    ELSE MakeDate(getFullYear(base), getMonth(base), 0)

ResolveStatementDate(base, period, cutOffDay) ==
    IF PeriodMatches(period)
    THEN PeriodStatementDate(period, cutOffDay)
    ELSE BaseStatementDate(base, cutOffDay)

ResolveDueDate(statementDate, dueDay) ==
    IF IsFinite(dueDay)
    THEN nextDateForDayOfMonth(dueDay[1], statementDate)
    ELSE MakeDate(getFullYear(statementDate), getMonth(statementDate),
                  dayClamp(getFullYear(statementDate), getMonth(statementDate), 25))

ResolvePrevStatementDate(statementDate, cutOffDay) ==
    LET prevMonth == MakeDate(getFullYear(statementDate), getMonth(statementDate) - 1, 1)
    IN  IF IsFinite(cutOffDay)
        THEN MakeDate(getFullYear(prevMonth), getMonth(prevMonth),
                      dayClamp(getFullYear(prevMonth), getMonth(prevMonth), cutOffDay[1]))
        ELSE MakeDate(getFullYear(statementDate), getMonth(statementDate), 0)

\* startPeriod: the day after the previous statement date
StartPeriod(prevStatementDate) ==
    MakeDate(getFullYear(prevStatementDate), getMonth(prevStatementDate),
             getDate(prevStatementDate) + 1)


----------------------------------------------------------------------------
(* Statement calculator (utils/creditStatementCalculator.js) and store reads *)

\* Number(x.toFixed(2)) of a figure in 1/100 of a cent: the nearest cent
ToFixed2(x) == IF x >= 0 THEN (x + 50) \div 100 ELSE 0 - ((50 - x) \div 100)

\* String(e.entryType).toLowerCase()
ToLowerCase(t) ==
    IF t \in {"charge", "Charge", "CHARGE"} THEN "charge"
    ELSE IF t \in {"payment", "Payment", "PAYMENT"} THEN "payment"
    ELSE t

RECURSIVE SumAmounts(_)
SumAmounts(seq) ==
    IF seq = <<>> THEN 0 ELSE Head(seq).amount + SumAmounts(Tail(seq))

\* the window closed at statementDate: the cutoff day's rows are taken too
PeriodEventOfClosedWindow(e, debtId, startPeriod, statementDate) ==
    /\ e.debtId = debtId
    /\ parseDateString(e.date) >= startPeriod
    /\ parseDateString(e.date) <= statementDate
    /\ e.amount > 0
    /\ ToLowerCase(e.entryType) \in {"charge", "payment"}

\* the loop over allExpenses: rows of the debt dated in
\* [startPeriod, statementDate), amount > 0, entry type charge or payment
PeriodEventOf(e, debtId, startPeriod, statementDate) ==
    /\ e.debtId = debtId
    /\ parseDateString(e.date) >= startPeriod
    /\ parseDateString(e.date) < statementDate
    /\ e.amount > 0
    /\ ToLowerCase(e.entryType) \in {"charge", "payment"}

GatherPeriodEvents(allExpenses, debtId, startPeriod, statementDate) ==
    LET Keep(e) == PeriodEventOf(e, debtId, startPeriod, statementDate)
        rows == SelectSeq(allExpenses, Keep)
    IN  [i \in 1 .. Len(rows) |->
            [date |-> parseDateString(rows[i].date),
             kind |-> ToLowerCase(rows[i].entryType),
             amount |-> rows[i].amount]]

\* a comparator on the date alone: same-day events keep their sheet order
EventBeforeByDateOnly(a, b) == a.date < b.date

\* the comparator of periodEvents.sort: by date, payments before charges
EventBefore(a, b) ==
    \/ a.date < b.date
    \/ a.date = b.date /\ a.kind = "payment" /\ b.kind = "charge"

RECURSIVE InsertEvent(_, _)
InsertEvent(e, sorted) ==
    IF sorted = <<>> THEN <<e>>
    ELSE IF EventBefore(e, Head(sorted)) THEN <<e>> \o sorted
    ELSE <<Head(sorted)>> \o InsertEvent(e, Tail(sorted))

\* Array.prototype.sort is stable: equal events keep their sheet order
RECURSIVE SortEvents(_)
SortEvents(events) ==
    IF events = <<>> THEN <<>>
    ELSE InsertEvent(events[Len(events)], SortEvents(SubSeq(events, 1, Len(events) - 1)))

SumKind(events, kind) ==
    LET Keep(e) == e.kind = kind
    IN  SumAmounts(SelectSeq(events, Keep))

\* every stored rate taken as a percentage
NormalizeAnnualRateAlwaysPercent(rate) == rate \div 100

\* debt.interesEfectivo > 1 ? debt.interesEfectivo / 100 : debt.interesEfectivo
NormalizeAnnualRate(rate) == IF rate > 10000 THEN rate \div 100 ELSE rate

\* the day-segmented walk: balance * days * rate summed over the segments
\* between consecutive events, each event applied on its date
RECURSIVE BalanceDays(_, _, _, _)
BalanceDays(balance, events, from, to) ==
    IF events = <<>> THEN balance * (to - from)
    ELSE LET e == Head(events)
             next == IF e.kind = "charge" THEN balance + e.amount
                     ELSE balance - e.amount
         IN  balance * (e.date - from) + BalanceDays(next, Tail(events), e.date, to)

\* computeSpdInterests: interest on the average daily balance, and the
\* grace-period interest of the period's own charges; in 1/100 of a cent
InterestSobreSaldo(previousBalance, events, rate, startPeriod, statementDate) ==
    (BalanceDays(previousBalance, events, startPeriod, statementDate) * rate) \div 36500

InterestBonificable(events, rate, startPeriod, statementDate) ==
    LET Keep(e) == e.kind = "charge"
    IN  (BalanceDays(0, SelectSeq(events, Keep), startPeriod, statementDate) * rate)
            \div 36500

\* computeInterestCarryOver(lastForDebt, prevPaid): the interest of the
\* previous statement left unpaid, nothing when it was paid in full
ComputeInterestCarryOver(last, prevPaid) ==
    IF prevPaid >= last.statementBalance THEN 0
    ELSE 100 * Max(0, last.interests - prevPaid)

\* sumPaymentsForDebt(debtId, from, to): payments of the debt dated in [from, to]
SumPaymentsForDebt(rows, debtId, from, to) ==
    LET Keep(e) ==
            /\ e.debtId = debtId
            /\ ToLowerCase(e.entryType) = "payment"
            /\ e.date >= from
            /\ e.date <= to
    IN  SumAmounts(SelectSeq(rows, Keep))

\* daysBetweenDates(a, b) of utils/finance.js
daysBetweenDates(a, b) == b - a

\* history.some(h => h.debtId === debtId && h.statementDate === statementDateStr)
Exists(hist, debtId, statementDateStr) ==
    \E i \in 1 .. Len(hist) :
        hist[i].debtId = debtId /\ hist[i].statementDate = statementDateStr

\* the previous-record filter taking records dated at statementDateStr too
LastForDebtRowsInclusive(hist, debtId, statementDateStr) ==
    {i \in 1 .. Len(hist) :
        /\ hist[i].debtId = debtId
        /\ hist[i].statementDate <= statementDateStr
        /\ \A j \in 1 .. Len(hist) :
              (hist[j].debtId = debtId /\ hist[j].statementDate <= statementDateStr)
                  => hist[j].statementDate <= hist[i].statementDate}

\* the rows that can come first after the filter and the descending sort of
\* step 4: the debt's records dated before statementDateStr with the
\* greatest statementDate (the comparator never returns 0, so among equal
\* dates the first is whichever the sort leaves there)
LastForDebtRows(hist, debtId, statementDateStr) ==
    {i \in 1 .. Len(hist) :
        /\ hist[i].debtId = debtId
        /\ hist[i].statementDate < statementDateStr
        /\ \A j \in 1 .. Len(hist) :
              (hist[j].debtId = debtId /\ hist[j].statementDate < statementDateStr)
                  => hist[j].statementDate <= hist[i].statementDate}

\* findCreditHistoryRow(debtId, statementDate): the sheet row (row 1 is the
\* header) of the first matching record, 0 for none
FindCreditHistoryRow(hist, debtId, statementDateStr) ==
    IF Exists(hist, debtId, statementDateStr)
    THEN 1 + (CHOOSE i \in 1 .. Len(hist) :
                /\ hist[i].debtId = debtId
                /\ hist[i].statementDate = statementDateStr
                /\ \A j \in 1 .. (i - 1) :
                      ~(hist[j].debtId = debtId /\ hist[j].statementDate = statementDateStr))
    ELSE 0

\* the balance without its floor at zero
StatementBalanceUnclamped(previousBalance, charges, interests, payments) ==
    previousBalance + charges + interests - payments

\* Math.max(0, previousBalance + charges + interests - payments)
StatementBalance(previousBalance, charges, interests, payments) ==
    Max(0, previousBalance + charges + interests - payments)

\* currentCharges / currentPayments: rows of the debt dated after
\* statementDate and up to currentDate, of the given entry type
SumAfterStatement(allExpenses, debtId, statementDate, currentDate, kind) ==
    LET Keep(e) ==
            /\ e.debtId = debtId
            /\ parseDateString(e.date) > statementDate
            /\ parseDateString(e.date) <= currentDate
            /\ ToLowerCase(e.entryType) = kind
    IN  SumAmounts(SelectSeq(allExpenses, Keep))

\* the running balance without the payments made after the statement
CurrentBalanceChargesOnly(statementBalance, allExpenses, debtId, statementDate, currentDate) ==
    statementBalance
        + SumAfterStatement(allExpenses, debtId, statementDate, currentDate, "charge")

CurrentBalance(statementBalance, allExpenses, debtId, statementDate, currentDate) ==
    statementBalance
        + SumAfterStatement(allExpenses, debtId, statementDate, currentDate, "charge")
        - SumAfterStatement(allExpenses, debtId, statementDate, currentDate, "payment")


----------------------------------------------------------------------------
(* State *)

Procs == {"p1", "p2"}

\* the debts of the sheet; "dx" is an id no row has
DebtRow(balance, dueDay, cutOffDay, interesEfectivo, active) ==
    [balance |-> balance, dueDay |-> dueDay, cutOffDay |-> cutOffDay,
     interesEfectivo |-> interesEfectivo, active |-> active]

DebtSheet ==
    [d1 |-> DebtRow(1000, <<5>>, <<15>>, 180000, TRUE),
     d2 |-> DebtRow(500, <<>>, <<>>, 1800, TRUE),
     d3 |-> DebtRow(700, <<20>>, <<10>>, 1800, FALSE)]

ExpenseRow(debtId, date, amount, entryType) ==
    [debtId |-> debtId, date |-> date, amount |-> amount, entryType |-> entryType]

ExpenseSheet ==
    << ExpenseRow("d1", MakeDate(2024, 11, 20), 200, "charge"),
       ExpenseRow("d1", MakeDate(2025, 0, 10), 100, "Charge"),
       ExpenseRow("d1", MakeDate(2025, 0, 10), 300, "payment"),
       ExpenseRow("d1", MakeDate(2025, 0, 12), 0 - 40, "charge"),
       ExpenseRow("d1", MakeDate(2025, 0, 13), 70, "adjustment"),
       ExpenseRow("d1", MakeDate(2025, 0, 15), 400, "charge"),
       ExpenseRow("d1", MakeDate(2025, 0, 20), 50, "charge"),
       ExpenseRow("d1", MakeDate(2025, 1, 3), 2000, "payment"),
       ExpenseRow("d2", MakeDate(2025, 0, 12), 250, "charge"),
       ExpenseRow("d2", MakeDate(2025, 0, 31), 100, "payment"),
       ExpenseRow("d2", MakeDate(2025, 1, 10), 900, "payment") >>

\* the days the clock takes
ClockDays == {MakeDate(2025, 0, 15), MakeDate(2025, 1, 15)}

\* what an invocation returns or throws: statementDate and data are the
\* fields of the same name of the returned object, blank when it has none
NoResult ==
    [status |-> "none", code |-> 0, reason |-> "", statementDate |-> <<>>,
     data |-> <<>>]

NoInvocation ==
    [pc |-> "idle", debtId |-> "", recompute |-> FALSE, dateParam |-> <<>>,
     periodParam |-> NoPeriod, base |-> 0, debt |-> <<>>,
     statementDate |-> 0, dueDate |-> 0, prevStatementDate |-> 0,
     statementDateStr |-> 0, exists |-> FALSE, previousRowNumber |-> 0,
     lastForDebt |-> <<>>, previousBalance |-> 0, allExpenses |-> <<>>,
     periodEvents |-> <<>>, interestCarryOver |-> 0, record |-> <<>>,
     currentBalance |-> 0, result |-> NoResult]

Terminal == {"idle", "done", "skipped", "failed"}

----------------------------------------------------------------------------
(* Tenants, their credentials and their batch turn *)

\* getAllUsers returns the tenants in this order
TenantList == <<"u1", "u2">>
TenantSet == {TenantList[i] : i \in 1 .. Len(TenantList)}

\* an access token: "none" (blank), "stored" (the one in the user store
\* when the run or the request begins), "fresh" (returned by a refresh)
UserRow(sheetId, accessToken, refreshToken) ==
    [sheetId |-> sheetId, accessToken |-> accessToken, refreshToken |-> refreshToken]

\* what getDebtsObjects returns for a tenant's sheet
DebtObject(id, active, cutOffDay) == [id |-> id, active |-> active, cutOffDay |-> cutOffDay]

TenantDebts ==
    [u1 |-> << DebtObject("d1", TRUE, <<15>>),
               DebtObject("d3", FALSE, <<15>>),
               DebtObject("d2", TRUE, <<10>>),
               DebtObject("d4", TRUE, <<15>>) >>,
     u2 |-> << DebtObject("d5", TRUE, <<>>),
               DebtObject("d6", TRUE, <<15>>) >>]

\* the options the batch hands to accrueDebtInternal
BatchOptions(debtId) ==
    [debtId |-> debtId, recompute |-> FALSE, dateParam |-> <<>>, periodParam |-> NoPeriod]

NoCall == [debtId |-> "", recompute |-> FALSE, dateParam |-> <<>>, periodParam |-> NoPeriod]

\* the run's position (u: index of the tenant in turn, d: index of the debt
\* in turn), the locals of the tenant's turn and the three totals;
\* storeTokens are the tokens the turn's store calls were made with,
\* call the options of the last call of accrueDebtInternal, invocations the
\* number of such calls so far
NoBatch ==
    [pc |-> "idle", u |-> 0, accessToken |-> "none", probe |-> 0, refreshes |-> 0,
     storeTokens |-> {}, d |-> 0, call |-> NoCall, result |-> "none",
     totalProcessed |-> 0, totalSkipped |-> 0, totalErrors |-> 0, invocations |-> 0]

\* a tenant's turn: "pending", "noCredentials" (no sheet id or token),
\* "probeFailed", "noAccess", "refreshFailed" (skipped at the probe),
\* "failed" (caught by the per-user catch), "done"; examined counts the
\* debts the loop went past
NoTurn == [state |-> "pending", examined |-> 0]

NoRequest ==
    [handler |-> "none", pc |-> "idle", user |-> "", accessToken |-> "none",
     refreshes |-> 0, retries |-> 0, status |-> 0]

\* the spreadsheets: "s1" and "s2" are the tenants' own, "s3" is another one
\* a tenant may connect, "s0" is the one a sheets service constructed without
\* a token and without a sheet id works on
Spreadsheets == {"s0", "s1", "s2", "s3"}

\* a row of a Categories sheet
Category(id, name, color) == [id |-> id, name |-> name, color |-> color]

\* the handler in progress or last answered: who called, the request's
\* parameters, the handler's locals, the response's status and data
NoHttp ==
    [handler |-> "none", pc |-> "idle", user |-> "", params |-> <<>>,
     locals |-> <<>>, status |-> 0, data |-> <<>>]

\* the server before start() and before any request of these handlers
ServerIdle ==
    /\ config = [enabled |-> TRUE]
    /\ tasks = <<>>
    /\ categories = [s \in Spreadsheets |-> {}]
    /\ sheetIds = [u1 |-> "s1", u2 |-> "s2"]
    /\ http = NoHttp

\* nothing scheduled and no request: the state the accrual specifications keep
AuthIdle ==
    /\ users = [u \in TenantSet |-> UserRow(TRUE, "stored", TRUE)]
    /\ ledgers = [u \in TenantSet |-> {}]
    /\ batch = NoBatch
    /\ turns = [u \in TenantSet |-> NoTurn]
    /\ req = NoRequest

Init ==
    /\ tz \in TimeZones \ {"west"}
    /\ today = MakeDate(2025, 0, 15)
    /\ debts = DebtSheet
    /\ expenses = ExpenseSheet
    /\ history = <<>>
    /\ inv = [p \in Procs |-> NoInvocation]
    /\ started = 0
    /\ AuthIdle
    /\ ServerIdle

----------------------------------------------------------------------------
(* accrueDebtInternal, one action per await *)

\* the call: options are destructured, baseDate is taken, getDebts is awaited
Start(p, debtId, recompute, dateParam, periodParam) ==
    /\ inv[p].pc \in Terminal
    /\ started < MaxInvocations
    /\ started' = started + 1
    /\ inv' = [inv EXCEPT ![p] =
                  [NoInvocation EXCEPT
                      !.pc = "getDebts",
                      !.debtId = debtId,
                      !.recompute = recompute,
                      !.dateParam = dateParam,
                      !.periodParam = periodParam,
                      !.base = IF dateParam # <<>>
                               THEN ParseDateParam(dateParam[1])
                               ELSE today]]
    /\ UNCHANGED <<serverVars, authVars, tz, today, debts, expenses, history>>

\* the invocation returns or throws: its locals are gone, the arguments and
\* the outcome remain for the caller
Finish(p, pc, status, code, reason, statementDate, data) ==
    [inv EXCEPT ![p] =
        [NoInvocation EXCEPT
            !.pc = pc,
            !.debtId = inv[p].debtId,
            !.recompute = inv[p].recompute,
            !.dateParam = inv[p].dateParam,
            !.periodParam = inv[p].periodParam,
            !.result = [status |-> status, code |-> code, reason |-> reason,
                        statementDate |-> statementDate, data |-> data]]]

\* the load without the check of the active flag
LoadDebtIgnoringActive(p) ==
    LET c == inv[p] IN
    /\ c.pc = "getDebts"
    /\ IF c.debtId \notin DOMAIN debts
       THEN inv' = Finish(p, "failed", "error", 404, "Debt not found", <<>>, <<>>)
       ELSE LET debt == debts[c.debtId]
                statementDate ==
                    ResolveStatementDate(c.base, c.periodParam, debt.cutOffDay)
            IN  IF PeriodMatches(c.periodParam) /\ PeriodOutOfRange(c.periodParam)
                THEN inv' = Finish(p, "failed", "error", 400, "Invalid period format", <<>>, <<>>)
                ELSE inv' = [inv EXCEPT
                        ![p].pc = "getHistory",
                        ![p].debt = <<debt>>,
                        ![p].statementDate = statementDate,
                        ![p].dueDate = ResolveDueDate(statementDate, debt.dueDay),
                        ![p].prevStatementDate =
                            ResolvePrevStatementDate(statementDate, debt.cutOffDay)]
    /\ UNCHANGED <<serverVars, authVars, tz, today, debts, expenses, history, started>>

\* 1) load the debt, 2) resolve statementDate, dueDate and prevStatementDate
LoadDebt(p) ==
    LET c == inv[p] IN
    /\ c.pc = "getDebts"
    /\ IF c.debtId \notin DOMAIN debts
       THEN inv' = Finish(p, "failed", "error", 404, "Debt not found", <<>>, <<>>)
       ELSE LET debt == debts[c.debtId]
                statementDate ==
                    ResolveStatementDate(c.base, c.periodParam, debt.cutOffDay)
            IN  IF ~debt.active
                THEN inv' = Finish(p, "skipped", "skipped", 200, "Debt is inactive", <<>>, <<>>)
                ELSE IF PeriodMatches(c.periodParam) /\ PeriodOutOfRange(c.periodParam)
                THEN inv' = Finish(p, "failed", "error", 400, "Invalid period format", <<>>, <<>>)
                ELSE inv' = [inv EXCEPT
                        ![p].pc = "getHistory",
                        ![p].debt = <<debt>>,
                        ![p].statementDate = statementDate,
                        ![p].dueDate = ResolveDueDate(statementDate, debt.dueDay),
                        ![p].prevStatementDate =
                            ResolvePrevStatementDate(statementDate, debt.cutOffDay)]
    /\ UNCHANGED <<serverVars, authVars, tz, today, debts, expenses, history, started>>

\* the skip taken on the wrong flag
SkipsExistingOnRecompute(exists, recompute) == exists /\ recompute

\* exists && !recompute
SkipsExisting(exists, recompute) == exists /\ ~recompute

\* 3) idempotency check, 4) previous record and previousBalance
CheckIdempotency(p) ==
    LET c == inv[p]
        statementDateStr == toISODate(c.statementDate)
        exists == Exists(history, c.debtId, statementDateStr)
        candidates == LastForDebtRows(history, c.debtId, statementDateStr)
    IN
    /\ c.pc = "getHistory"
    /\ IF SkipsExisting(exists, c.recompute)
       THEN inv' = Finish(p, "skipped", "skipped", 200,
                          "Already accrued for this statementDate",
                          <<statementDateStr>>, <<>>)
       ELSE \E last \in IF candidates = {} THEN {<<>>}
                        ELSE {<<history[i]>> : i \in candidates} :
              inv' = [inv EXCEPT
                  ![p].pc = IF exists /\ c.recompute THEN "findRow" ELSE "getExpenses",
                  ![p].statementDateStr = statementDateStr,
                  ![p].exists = exists,
                  ![p].lastForDebt = last,
                  ![p].previousBalance =
                      IF last # <<>> THEN last[1].statementBalance
                      ELSE c.debt[1].balance]
    /\ UNCHANGED <<serverVars, authVars, tz, today, debts, expenses, history, started>>

\* previousRowNumber = await sheetsService.findCreditHistoryRow(...)
FindRow(p) ==
    LET c == inv[p]
        row == FindCreditHistoryRow(history, c.debtId, c.statementDateStr)
    IN
    /\ c.pc = "findRow"
    /\ inv' = [inv EXCEPT
                  ![p].pc = IF row # 0 THEN "getByRow" ELSE "getExpenses",
                  ![p].previousRowNumber = row]
    /\ UNCHANGED <<serverVars, authVars, tz, today, debts, expenses, history, started>>

\* previousRecord = await sheetsService.getCreditHistoryByRow(previousRowNumber)
LoadPreviousRecord(p) ==
    /\ inv[p].pc = "getByRow"
    /\ inv' = [inv EXCEPT ![p].pc = "getExpenses"]
    /\ UNCHANGED <<serverVars, authVars, tz, today, debts, expenses, history, started>>

\* 5) gather the period's events, sorted
GatherEvents(p) ==
    LET c == inv[p]
        startPeriod == StartPeriod(c.prevStatementDate)
        periodEvents ==
            SortEvents(GatherPeriodEvents(expenses, c.debtId, startPeriod, c.statementDate))
    IN
    /\ c.pc = "getExpenses"
    /\ inv' = [inv EXCEPT
                  ![p].pc = IF c.lastForDebt # <<>> THEN "sumPrevPaid"
                            ELSE "sumPaymentMade",
                  ![p].allExpenses = expenses,
                  ![p].periodEvents = periodEvents]
    /\ UNCHANGED <<serverVars, authVars, tz, today, debts, expenses, history, started>>

\* the carry-over lookup; a failure of sumPaymentsForDebt is caught and
\* leaves interestCarryOver at 0
CarryOver(p) ==
    LET c == inv[p]
        last == c.lastForDebt[1]
        prevPaid == SumPaymentsForDebt(expenses, c.debtId, last.statementDate, last.dueDate)
    IN
    /\ c.pc = "sumPrevPaid"
    /\ inv' = [inv EXCEPT
                  ![p].pc = "sumPaymentMade",
                  ![p].interestCarryOver = ComputeInterestCarryOver(last, prevPaid)]
    /\ UNCHANGED <<serverVars, authVars, tz, today, debts, expenses, history, started>>

CarryOverFails(p) ==
    /\ inv[p].pc = "sumPrevPaid"
    /\ inv' = [inv EXCEPT ![p].pc = "sumPaymentMade", ![p].interestCarryOver = 0]
    /\ UNCHANGED <<serverVars, authVars, tz, today, debts, expenses, history, started>>

\* the record with the bonifiable interest added into statementBalance
BuildRecordBonifiableInBalance(c, paymentMade) ==
    LET startPeriod == StartPeriod(c.prevStatementDate)
        charges == SumKind(c.periodEvents, "charge")
        payments == SumKind(c.periodEvents, "payment")
        annualRateUnit == NormalizeAnnualRate(c.debt[1].interesEfectivo)
        interestSobreSaldo ==
            InterestSobreSaldo(c.previousBalance, c.periodEvents, annualRateUnit,
                               startPeriod, c.statementDate)
        interestBonificable ==
            InterestBonificable(c.periodEvents, annualRateUnit, startPeriod,
                                c.statementDate)
        interests == ToFixed2(interestSobreSaldo + c.interestCarryOver)
        bonifiableInterest == ToFixed2(interestBonificable)
        statementBalance ==
            StatementBalance(c.previousBalance, charges, interests + bonifiableInterest,
                             payments)
    IN  [debtId |-> c.debtId,
         statementDate |-> c.statementDateStr,
         dueDate |-> toISODate(c.dueDate),
         previousBalance |-> c.previousBalance,
         charges |-> charges,
         interests |-> interests,
         payments |-> payments,
         statementBalance |-> statementBalance,
         bonifiableInterest |-> bonifiableInterest,
         installmentBalance |-> statementBalance + bonifiableInterest,
         annualEffectiveRate |-> annualRateUnit,
         periodDays |-> daysBetweenDates(startPeriod, c.statementDate),
         paymentMade |-> paymentMade]

\* 6) the statement's figures and 7) the record handed to the store
BuildRecord(c, paymentMade) ==
    LET startPeriod == StartPeriod(c.prevStatementDate)
        charges == SumKind(c.periodEvents, "charge")
        payments == SumKind(c.periodEvents, "payment")
        annualRateUnit == NormalizeAnnualRate(c.debt[1].interesEfectivo)
        interestSobreSaldo ==
            InterestSobreSaldo(c.previousBalance, c.periodEvents, annualRateUnit,
                               startPeriod, c.statementDate)
        interestBonificable ==
            InterestBonificable(c.periodEvents, annualRateUnit, startPeriod,
                                c.statementDate)
        interests == ToFixed2(interestSobreSaldo + c.interestCarryOver)
        bonifiableInterest == ToFixed2(interestBonificable)
        statementBalance ==
            StatementBalance(c.previousBalance, charges, interests, payments)
    IN  [debtId |-> c.debtId,
         statementDate |-> c.statementDateStr,
         dueDate |-> toISODate(c.dueDate),
         previousBalance |-> c.previousBalance,
         charges |-> charges,
         interests |-> interests,
         payments |-> payments,
         statementBalance |-> statementBalance,
         bonifiableInterest |-> bonifiableInterest,
         installmentBalance |-> statementBalance + bonifiableInterest,
         annualEffectiveRate |-> annualRateUnit,
         periodDays |-> daysBetweenDates(startPeriod, c.statementDate),
         paymentMade |-> paymentMade]

\* paymentMade: await sheetsService.sumPaymentsForDebt(debtId, statementDateStr, dueDate)
PaymentMade(p) ==
    LET c == inv[p]
        paymentMade ==
            SumPaymentsForDebt(expenses, c.debtId, c.statementDateStr, toISODate(c.dueDate))
    IN
    /\ c.pc = "sumPaymentMade"
    /\ inv' = [inv EXCEPT ![p].pc = "write", ![p].record = <<BuildRecord(c, paymentMade)>>]
    /\ UNCHANGED <<serverVars, authVars, tz, today, debts, expenses, history, started>>

\* a recompute that appends like a first accrual
WriteHistoryAlwaysAppend(hist, c) == Append(hist, c.record[1])

\* an append that is an atomic insert-if-absent on (debtId, statementDate)
WriteHistoryIfAbsent(hist, c) ==
    IF c.exists /\ c.previousRowNumber # 0 /\ c.recompute
    THEN [hist EXCEPT ![c.previousRowNumber - 1] = c.record[1]]
    ELSE IF Exists(hist, c.debtId, c.statementDateStr) THEN hist
    ELSE Append(hist, c.record[1])

\* exists && previousRowNumber && recompute: update the row, else append
WriteHistory(hist, c) ==
    IF c.exists /\ c.previousRowNumber # 0 /\ c.recompute
    THEN [hist EXCEPT ![c.previousRowNumber - 1] = c.record[1]]
    ELSE Append(hist, c.record[1])

\* 7) persist the record; then the running balance is computed as of now
Persist(p) ==
    LET c == inv[p] IN
    /\ c.pc = "write"
    /\ history' = WriteHistory(history, c)
    /\ inv' = [inv EXCEPT
                  ![p].pc = "updateDebt",
                  ![p].currentBalance =
                      CurrentBalance(c.record[1].statementBalance, c.allExpenses,
                                     c.debtId, c.statementDate, today)]
    /\ UNCHANGED <<serverVars, authVars, tz, today, debts, expenses, started>>

\* formatResponseTwoDecimals(record, fields, true) of utils/finance.js: the
\* listed figures with two decimals; cents stay as they are, the rate is
\* rounded to hundredths
FormatResponse(record) ==
    [record EXCEPT !.annualEffectiveRate = 100 * ToFixed2(record.annualEffectiveRate)]

\* await sheetsService.updateDebt({ id: debtId, balance: currentBalance })
UpdateBalance(p) ==
    LET c == inv[p] IN
    /\ c.pc = "updateDebt"
    /\ debts' = [debts EXCEPT ![c.debtId].balance = c.currentBalance]
    /\ inv' = Finish(p, "done", "created", 200, "", <<c.statementDateStr>>,
                      <<FormatResponse(c.record[1])>>)
    /\ UNCHANGED <<serverVars, authVars, tz, today, expenses, history, started>>

----------------------------------------------------------------------------
(* getDebtStatementPreview, one action per await *)

PreviewStart(p, id, recompute, dateParam, periodParam) ==
    /\ inv[p].pc \in Terminal
    /\ started < MaxInvocations
    /\ started' = started + 1
    /\ inv' = [inv EXCEPT ![p] =
                  [NoInvocation EXCEPT
                      !.pc = "pvGetDebts",
                      !.debtId = id,
                      !.recompute = recompute,
                      !.dateParam = dateParam,
                      !.periodParam = periodParam,
                      !.base = IF dateParam # <<>>
                               THEN ParseDateParam(dateParam[1])
                               ELSE today]]
    /\ UNCHANGED <<serverVars, authVars, tz, today, debts, expenses, history>>

\* load the debt and resolve the dates
PreviewLoadDebt(p) ==
    LET c == inv[p] IN
    /\ c.pc = "pvGetDebts"
    /\ IF c.debtId \notin DOMAIN debts
       THEN inv' = Finish(p, "failed", "error", 404, "Debt not found", <<>>, <<>>)
       ELSE LET debt == debts[c.debtId]
                statementDate ==
                    ResolveStatementDate(c.base, c.periodParam, debt.cutOffDay)
            IN  IF ~debt.active
                THEN inv' = Finish(p, "skipped", "skipped", 200, "Debt is inactive",
                                   <<>>, <<>>)
                ELSE IF PeriodMatches(c.periodParam) /\ PeriodOutOfRange(c.periodParam)
                THEN inv' = Finish(p, "failed", "error", 400, "Invalid period format",
                                   <<>>, <<>>)
                ELSE inv' = [inv EXCEPT
                        ![p].pc = "pvGetHistory",
                        ![p].debt = <<debt>>,
                        ![p].statementDate = statementDate,
                        ![p].dueDate = ResolveDueDate(statementDate, debt.dueDay),
                        ![p].prevStatementDate =
                            ResolvePrevStatementDate(statementDate, debt.cutOffDay)]
    /\ UNCHANGED <<serverVars, authVars, tz, today, debts, expenses, history, started>>

\* history.find(h => h.debtId === id && h.statementDate === statementDateStr)
FindExisting(hist, id, statementDateStr) ==
    hist[FindCreditHistoryRow(hist, id, statementDateStr) - 1]

\* an existing record is returned as it is unless recompute is set; else
\* the previous record and previousBalance are determined
PreviewCheckExisting(p) ==
    LET c == inv[p]
        statementDateStr == toISODate(c.statementDate)
        existing == Exists(history, c.debtId, statementDateStr)
        candidates == LastForDebtRows(history, c.debtId, statementDateStr)
    IN
    /\ c.pc = "pvGetHistory"
    /\ IF existing /\ ~c.recompute
       THEN inv' = Finish(p, "done", "cached", 200, "", <<>>,
                          <<FindExisting(history, c.debtId, statementDateStr)>>)
       ELSE \E last \in IF candidates = {} THEN {<<>>}
                        ELSE {<<history[i]>> : i \in candidates} :
              inv' = [inv EXCEPT
                  ![p].pc = "pvGetExpenses",
                  ![p].statementDateStr = statementDateStr,
                  ![p].exists = existing,
                  ![p].lastForDebt = last,
                  ![p].previousBalance =
                      IF last # <<>> THEN last[1].statementBalance
                      ELSE c.debt[1].balance]
    /\ UNCHANGED <<serverVars, authVars, tz, today, debts, expenses, history, started>>

PreviewGatherEvents(p) ==
    LET c == inv[p]
        startPeriod == StartPeriod(c.prevStatementDate)
        periodEvents ==
            SortEvents(GatherPeriodEvents(expenses, c.debtId, startPeriod, c.statementDate))
    IN
    /\ c.pc = "pvGetExpenses"
    /\ inv' = [inv EXCEPT
                  ![p].pc = IF c.lastForDebt # <<>> THEN "pvSumPrevPaid"
                            ELSE "pvSumPaymentMade",
                  ![p].allExpenses = expenses,
                  ![p].periodEvents = periodEvents]
    /\ UNCHANGED <<serverVars, authVars, tz, today, debts, expenses, history, started>>

PreviewCarryOver(p) ==
    LET c == inv[p]
        last == c.lastForDebt[1]
        prevPaid == SumPaymentsForDebt(expenses, c.debtId, last.statementDate, last.dueDate)
    IN
    /\ c.pc = "pvSumPrevPaid"
    /\ inv' = [inv EXCEPT
                  ![p].pc = "pvSumPaymentMade",
                  ![p].interestCarryOver = ComputeInterestCarryOver(last, prevPaid)]
    /\ UNCHANGED <<serverVars, authVars, tz, today, debts, expenses, history, started>>

PreviewCarryOverFails(p) ==
    /\ inv[p].pc = "pvSumPrevPaid"
    /\ inv' = [inv EXCEPT ![p].pc = "pvSumPaymentMade", ![p].interestCarryOver = 0]
    /\ UNCHANGED <<serverVars, authVars, tz, today, debts, expenses, history, started>>

\* a preview that leaves the carried interest out of interests
PreviewDataWithoutCarryOver(c, paymentMade) ==
    LET startPeriod == StartPeriod(c.prevStatementDate)
        charges == SumKind(c.periodEvents, "charge")
        payments == SumKind(c.periodEvents, "payment")
        annualRateUnit == NormalizeAnnualRate(c.debt[1].interesEfectivo)
        interestSobreSaldo ==
            InterestSobreSaldo(c.previousBalance, c.periodEvents, annualRateUnit,
                               startPeriod, c.statementDate)
        interestBonificable ==
            InterestBonificable(c.periodEvents, annualRateUnit, startPeriod,
                                c.statementDate)
        interests == ToFixed2(interestSobreSaldo)
        bonifiableInterest == ToFixed2(interestBonificable)
        statementBalance ==
            StatementBalance(c.previousBalance, charges, interests, payments)
    IN  [debtId |-> c.debtId,
         statementDate |-> toISODate(c.statementDate),
         dueDate |-> toISODate(c.dueDate),
         previousBalance |-> c.previousBalance,
         charges |-> charges,
         interests |-> interests,
         payments |-> payments,
         statementBalance |-> statementBalance,
         bonifiableInterest |-> bonifiableInterest,
         installmentBalance |-> statementBalance + bonifiableInterest,
         annualEffectiveRate |-> annualRateUnit,
         periodDays |-> daysBetweenDates(startPeriod, c.statementDate),
         paymentMade |-> paymentMade]

\* previewData: the figures of the statement, nothing is written
PreviewData(c, paymentMade) ==
    LET startPeriod == StartPeriod(c.prevStatementDate)
        charges == SumKind(c.periodEvents, "charge")
        payments == SumKind(c.periodEvents, "payment")
        annualRateUnit == NormalizeAnnualRate(c.debt[1].interesEfectivo)
        interestSobreSaldo ==
            InterestSobreSaldo(c.previousBalance, c.periodEvents, annualRateUnit,
                               startPeriod, c.statementDate)
        interestBonificable ==
            InterestBonificable(c.periodEvents, annualRateUnit, startPeriod,
                                c.statementDate)
        interests == ToFixed2(interestSobreSaldo + c.interestCarryOver)
        bonifiableInterest == ToFixed2(interestBonificable)
        statementBalance ==
            StatementBalance(c.previousBalance, charges, interests, payments)
    IN  [debtId |-> c.debtId,
         statementDate |-> toISODate(c.statementDate),
         dueDate |-> toISODate(c.dueDate),
         previousBalance |-> c.previousBalance,
         charges |-> charges,
         interests |-> interests,
         payments |-> payments,
         statementBalance |-> statementBalance,
         bonifiableInterest |-> bonifiableInterest,
         installmentBalance |-> statementBalance + bonifiableInterest,
         annualEffectiveRate |-> annualRateUnit,
         periodDays |-> daysBetweenDates(startPeriod, c.statementDate),
         paymentMade |-> paymentMade]

\* a preview that stores the statement it computed
PreviewRespondPersisting(p) ==
    LET c == inv[p]
        paymentMade ==
            SumPaymentsForDebt(expenses, c.debtId, toISODate(c.statementDate),
                               toISODate(c.dueDate))
    IN
    /\ c.pc = "pvSumPaymentMade"
    /\ history' = Append(history, PreviewData(c, paymentMade))
    /\ inv' = Finish(p, "done", "preview", 200, "", <<>>,
                     <<FormatResponse(PreviewData(c, paymentMade))>>)
    /\ UNCHANGED <<serverVars, authVars, tz, today, debts, expenses, started>>

\* the last await (paymentMade), then the response
PreviewRespond(p) ==
    LET c == inv[p]
        paymentMade ==
            SumPaymentsForDebt(expenses, c.debtId, toISODate(c.statementDate),
                               toISODate(c.dueDate))
    IN
    /\ c.pc = "pvSumPaymentMade"
    /\ inv' = Finish(p, "done", "preview", 200, "", <<>>,
                     <<FormatResponse(PreviewData(c, paymentMade))>>)
    /\ UNCHANGED <<serverVars, authVars, tz, today, debts, expenses, history, started>>

\* an awaited store call rejects: the error propagates to the caller
Awaiting ==
    {"getDebts", "getHistory", "findRow", "getByRow", "getExpenses",
     "sumPaymentMade", "write", "updateDebt",
     "pvGetDebts", "pvGetHistory", "pvGetExpenses", "pvSumPaymentMade"}

StoreCallFails(p) ==
    /\ inv[p].pc \in Awaiting
    /\ inv' = Finish(p, "failed", "error", 500, "store call failed", <<>>, <<>>)
    /\ UNCHANGED <<serverVars, authVars, tz, today, debts, expenses, history, started>>

\* the clock moves on to a later day
Tick ==
    /\ \E d \in ClockDays : d > today /\ today' = d
    /\ UNCHANGED <<serverVars, authVars, tz, debts, expenses, history, inv, started>>

Step(p) ==
    \/ LoadDebt(p)
    \/ CheckIdempotency(p)
    \/ FindRow(p)
    \/ LoadPreviousRecord(p)
    \/ GatherEvents(p)
    \/ CarryOver(p)
    \/ CarryOverFails(p)
    \/ PaymentMade(p)
    \/ Persist(p)
    \/ UpdateBalance(p)
    \/ StoreCallFails(p)

PreviewStep(p) ==
    \/ PreviewLoadDebt(p)
    \/ PreviewCheckExisting(p)
    \/ PreviewGatherEvents(p)
    \/ PreviewCarryOver(p)
    \/ PreviewCarryOverFails(p)
    \/ PreviewRespond(p)

DebtArgs == {"d1", "d2", "d3", "dx"}
PeriodArgs == {NoPeriod, YM(2025, 1), YM(2025, 2), YM(2025, 13), BadPeriod}

\* requests may overlap: each invocation runs on its own
Next ==
    \/ \E p \in Procs, recompute \in BOOLEAN, periodParam \in {NoPeriod, YM(2025, 1)} :
            Start(p, "d1", recompute, <<>>, periodParam)
    \/ \E p \in Procs : Step(p)
    \/ Tick

Spec == Init /\ [][Next]_vars

\* invocations that run to completion before the next begins
SeqNext ==
    \/ \E debtId \in DebtArgs, recompute \in BOOLEAN, periodParam \in PeriodArgs :
            \/ Start("p1", debtId, recompute, <<>>, periodParam)
            \/ PreviewStart("p1", debtId, recompute, <<>>, periodParam)
    \/ Step("p1")
    \/ PreviewStep("p1")
    \/ Tick

SeqSpec == Init /\ [][SeqNext]_vars

----------------------------------------------------------------------------
(* The date resolution alone, over every cutoff day, due days and base dates *)

DueDayCells == {<<>>, <<5>>, <<31>>}
CutOffDayCells == {<<>>} \cup {<<d>> : d \in 1 .. 31}

\* base dates: January to March of a leap year
BaseDays == MakeDate(2024, 0, 1) .. MakeDate(2024, 2, 31)

DatePeriods ==
    {YM(2024, mm) : mm \in 1 .. 4} \cup {YM(2025, 2), YM(2025, 13), NoPeriod, BadPeriod}

DateInit ==
    /\ tz \in TimeZones
    /\ today = MakeDate(2025, 0, 15)
    /\ \E dueDay \in DueDayCells, cutOffDay \in CutOffDayCells :
          debts = [d1 |-> DebtRow(1000, dueDay, cutOffDay, 1800, TRUE)]
    /\ expenses = ExpenseSheet
    /\ history = <<>>
    /\ inv = [p \in Procs |-> NoInvocation]
    /\ started = 0
    /\ AuthIdle
    /\ ServerIdle

DateNext ==
    \/ /\ started = 0
       /\ \E dateParam \in {<<>>} \cup {<<d>> : d \in BaseDays},
             periodParam \in DatePeriods :
               /\ (dateParam = <<>> \/ periodParam = NoPeriod)
               /\ \/ Start("p1", "d1", FALSE, dateParam, periodParam)
                  \/ PreviewStart("p1", "d1", FALSE, dateParam, periodParam)
    \/ LoadDebt("p1")
    \/ PreviewLoadDebt("p1")

DateSpec == DateInit /\ [][DateNext]_vars


----------------------------------------------------------------------------
(* One accrual of the January 2025 statement of d1 (cutoff day 15), over    *)
(* every Expenses sheet of MaxRows rows and every stored rate               *)

EventRows ==
    { ExpenseRow("d1", MakeDate(2024, 11, 15), 150, "charge"),
      ExpenseRow("d1", MakeDate(2024, 11, 16), 500, "payment"),
      ExpenseRow("d1", MakeDate(2025, 0, 10), 3000, "Charge"),
      ExpenseRow("d1", MakeDate(2025, 0, 10), 300, "payment"),
      ExpenseRow("d1", MakeDate(2025, 0, 12), 0 - 40, "charge"),
      ExpenseRow("d1", MakeDate(2025, 0, 13), 70, "adjustment"),
      ExpenseRow("d1", MakeDate(2025, 0, 15), 400, "charge"),
      ExpenseRow("d1", MakeDate(2025, 0, 17), 0 - 30, "charge"),
      ExpenseRow("d1", MakeDate(2025, 0, 18), 60, "payment"),
      ExpenseRow("d1", MakeDate(2025, 0, 25), 80, "charge"),
      ExpenseRow("d2", MakeDate(2025, 0, 10), 250, "charge") }

\* the stored rate: 0.18, 18 (a percentage) and 1
RateCells == {1800, 180000, 10000}

EventInit ==
    /\ tz = "utc"
    /\ today = MakeDate(2025, 0, 20)
    /\ \E rate \in RateCells :
          debts = [d1 |-> DebtRow(1000, <<5>>, <<15>>, rate, TRUE),
                   d2 |-> DebtRow(500, <<>>, <<>>, 1800, TRUE)]
    /\ expenses \in [1 .. MaxRows -> EventRows]
    /\ history = <<>>
    /\ inv = [p \in Procs |-> NoInvocation]
    /\ started = 0
    /\ AuthIdle
    /\ ServerIdle

EventNext ==
    \/ started = 0 /\ Start("p1", "d1", FALSE, <<>>, YM(2025, 1))
    \/ LoadDebt("p1")
    \/ CheckIdempotency("p1")
    \/ GatherEvents("p1")
    \/ PaymentMade("p1")
    \/ Persist("p1")
    \/ UpdateBalance("p1")

EventSpec == EventInit /\ [][EventNext]_vars


----------------------------------------------------------------------------
(* The scheduled batch: processDebtAccruals, one action per await *)

accVars == <<tz, debts, expenses, history, inv, started>>

User(b) == users[TenantList[b.u]]

\* a turn whose end ends the whole run
NextUserAborting(b) == [b EXCEPT !.pc = "aborted"]

\* `continue` of the tenant loop, and the end of its body
NextUser(b) == [b EXCEPT !.pc = "user", !.u = @ + 1]

EndTurn(u, state) == [turns EXCEPT ![TenantList[u]].state = state]

\* the test of the debt loop: active, and a cut-off day that is today's
\* day of the month
DueTodayIgnoringActive(debt, todayDay) ==
    /\ debt.cutOffDay # <<>>
    /\ debt.cutOffDay[1] # 0
    /\ debt.cutOffDay[1] = todayDay

DueToday(debt, todayDay) ==
    /\ debt.active
    /\ debt.cutOffDay # <<>>
    /\ debt.cutOffDay[1] # 0
    /\ debt.cutOffDay[1] = todayDay

\* the counter an outcome of accrueDebtInternal goes to
TallyDroppingErrors(b, result) ==
    CASE result = "skipped" -> [b EXCEPT !.totalSkipped = @ + 1]
      [] result = "processed" -> [b EXCEPT !.totalProcessed = @ + 1]
      [] OTHER -> b

Tally(b, result) ==
    CASE result = "skipped" -> [b EXCEPT !.totalSkipped = @ + 1]
      [] result = "processed" -> [b EXCEPT !.totalProcessed = @ + 1]
      [] OTHER -> [b EXCEPT !.totalErrors = @ + 1]

\* the cron callback or triggerDebtAccruals
BatchStart ==
    /\ batch.pc = "idle"
    /\ req.handler = "none"
    /\ batch' = [batch EXCEPT !.pc = "getAllUsers"]
    /\ UNCHANGED <<serverVars, accVars, today, users, ledgers, turns, req>>

\* the tenant list loads, or the outer catch rethrows
GetAllUsers ==
    /\ batch.pc = "getAllUsers"
    /\ \E ok \in BOOLEAN :
         batch' = IF ok THEN [batch EXCEPT !.pc = "user", !.u = 1]
                        ELSE [batch EXCEPT !.pc = "aborted"]
    /\ UNCHANGED <<serverVars, accVars, today, users, ledgers, turns, req>>

\* the head of the tenant loop, up to the probe
BeginTurn ==
    /\ batch.pc = "user"
    /\ IF batch.u > Len(TenantList)
         THEN /\ batch' = [batch EXCEPT !.pc = "summary"]
              /\ turns' = turns
         ELSE IF ~User(batch).sheetId \/ User(batch).accessToken = "none"
         THEN /\ batch' = NextUser(batch)
              /\ turns' = EndTurn(batch.u, "noCredentials")
         ELSE /\ batch' = [batch EXCEPT !.pc = "probe",
                                        !.accessToken = User(batch).accessToken,
                                        !.probe = 0, !.refreshes = 0,
                                        !.storeTokens = {}, !.d = 0,
                                        !.call = NoCall, !.result = "none"]
              /\ turns' = turns
    /\ UNCHANGED <<serverVars, accVars, today, users, ledgers, req>>

\* the statuses a Google endpoint answers with; 0 is a fetch that throws
Statuses == {0, 200, 401, 403}

\* the test request with the stored token
ProbeToken ==
    /\ batch.pc = "probe"
    /\ \E status \in Statuses :
         LET b == [batch EXCEPT !.probe = status] IN
         IF status = 0
           THEN /\ batch' = NextUser(b)
                /\ turns' = EndTurn(batch.u, "probeFailed")
         ELSE IF status = 401 /\ User(batch).refreshToken
           THEN /\ batch' = [b EXCEPT !.pc = "refresh"]
                /\ turns' = turns
         ELSE IF status # 200 /\ status # 401
           THEN /\ batch' = NextUser(b)
                /\ turns' = EndTurn(batch.u, "noAccess")
         ELSE /\ batch' = [b EXCEPT !.pc = "getDebts"]
              /\ turns' = turns
    /\ UNCHANGED <<serverVars, accVars, today, users, ledgers, req>>

\* authService.refreshAccessToken
RefreshToken ==
    /\ batch.pc = "refresh"
    /\ \E ok \in BOOLEAN :
         IF ok
           THEN /\ batch' = [batch EXCEPT !.pc = "updateTokens", !.refreshes = @ + 1,
                                          !.accessToken = "fresh"]
                /\ turns' = turns
           ELSE /\ batch' = NextUser([batch EXCEPT !.refreshes = @ + 1])
                /\ turns' = EndTurn(batch.u, "refreshFailed")
    /\ UNCHANGED <<serverVars, accVars, today, users, ledgers, req>>

\* a refresh whose token is not stored
UpdateUserTokensNotPersisting ==
    /\ batch.pc = "updateTokens"
    /\ batch' = [batch EXCEPT !.pc = "getDebts"]
    /\ UNCHANGED <<serverVars, accVars, today, users, ledgers, turns, req>>

\* userSheetService.updateUserTokens
UpdateUserTokens ==
    /\ batch.pc = "updateTokens"
    /\ \E ok \in BOOLEAN :
         IF ok
           THEN /\ users' = [users EXCEPT ![TenantList[batch.u]].accessToken = batch.accessToken]
                /\ batch' = [batch EXCEPT !.pc = "getDebts"]
                /\ turns' = turns
           ELSE /\ users' = users
                /\ batch' = NextUser(batch)
                /\ turns' = EndTurn(batch.u, "refreshFailed")
    /\ UNCHANGED <<serverVars, accVars, today, ledgers, req>>

\* sheetsService.getDebtsObjects with the token the turn holds; a token the
\* probe found expired is refused again, and the per-user catch counts it
GetDebtsObjects ==
    /\ batch.pc = "getDebts"
    /\ \E ok \in BOOLEAN :
         LET b == [batch EXCEPT !.storeTokens = @ \cup {batch.accessToken}] IN
         /\ (batch.probe = 401 /\ batch.accessToken = "stored") => ~ok
         /\ IF ok
              THEN /\ batch' = [b EXCEPT !.pc = "debt", !.d = 1]
                   /\ turns' = turns
              ELSE /\ batch' = NextUser(Tally(b, "failed"))
                   /\ turns' = EndTurn(batch.u, "failed")
    /\ UNCHANGED <<serverVars, accVars, today, users, ledgers, req>>

\* the head of the debt loop: past the end, a debt passed over, or a debt
\* handed to accrueDebtInternal
NextDebt ==
    LET list == TenantDebts[TenantList[batch.u]] IN
    /\ batch.pc = "debt"
    /\ IF batch.d > Len(list)
         THEN /\ batch' = NextUser(batch)
              /\ turns' = EndTurn(batch.u, "done")
         ELSE IF ~DueToday(list[batch.d], getDate(today))
         THEN /\ batch' = [batch EXCEPT !.d = @ + 1]
              /\ turns' = [turns EXCEPT ![TenantList[batch.u]].examined = @ + 1]
         ELSE /\ batch' = [batch EXCEPT !.pc = "accrue",
                                        !.call = BatchOptions(list[batch.d].id)]
              /\ turns' = turns
    /\ UNCHANGED <<serverVars, accVars, today, users, ledgers, req>>

\* accrueDebtInternal by its outcomes: it returns skipped for a key the
\* ledger has when recompute is off, returns the record it wrote, or
\* throws, before or after the write
AccrueDebt ==
    LET u == TenantList[batch.u]
        id == batch.call.debtId
    IN
    /\ batch.pc = "accrue"
    /\ \E outcome \in {"returns", "throws", "throwsAfterWrite"} :
         LET hit == id \in ledgers[u] /\ ~batch.call.recompute
             result == IF outcome # "returns" THEN "failed"
                       ELSE IF hit THEN "skipped" ELSE "processed"
             b == [batch EXCEPT !.storeTokens = @ \cup {batch.accessToken},
                                !.invocations = @ + 1,
                                !.result = result,
                                !.pc = "debt", !.d = @ + 1]
         IN
         /\ (outcome = "throwsAfterWrite") => ~hit
         /\ ledgers' = IF outcome = "throws" \/ hit THEN ledgers
                       ELSE [ledgers EXCEPT ![u] = @ \cup {id}]
         /\ batch' = Tally(b, result)
    /\ turns' = [turns EXCEPT ![TenantList[batch.u]].examined = @ + 1]
    /\ UNCHANGED <<serverVars, accVars, today, users, req>>

BatchStep ==
    \/ GetAllUsers
    \/ BeginTurn
    \/ ProbeToken
    \/ RefreshToken
    \/ UpdateUserTokens
    \/ GetDebtsObjects
    \/ NextDebt
    \/ AccrueDebt

----------------------------------------------------------------------------
(* The requests of the auth controller that refresh a token *)

Done(r, status) == [r EXCEPT !.pc = "done", !.status = status]

Callers == TenantSet \cup {"anonymous"}

\* listUserSheets up to its first await
ListUserSheets ==
    /\ req.handler = "none"
    /\ batch.pc = "idle"
    /\ \E who \in Callers :
         LET r == [req EXCEPT !.handler = "listUserSheets", !.user = who] IN
         req' = IF who = "anonymous" THEN Done(r, 401)
                ELSE [r EXCEPT !.pc = "list", !.accessToken = users[who].accessToken]
    /\ UNCHANGED <<serverVars, accVars, today, users, ledgers, batch, turns>>

\* authService.listUserSheets with the session's token
ListCall ==
    /\ req.pc = "list"
    /\ \E status \in Statuses :
         req' = IF status = 200 THEN Done(req, 200)
                ELSE IF status = 401 /\ users[req.user].refreshToken
                  THEN [req EXCEPT !.pc = "listRefresh"]
                ELSE Done(req, IF status = 0 THEN 500 ELSE status)
    /\ UNCHANGED <<serverVars, accVars, today, users, ledgers, batch, turns>>

ListRefresh ==
    /\ req.pc = "listRefresh"
    /\ \E ok \in BOOLEAN :
         req' = IF ok THEN [req EXCEPT !.pc = "listUpdate", !.refreshes = @ + 1,
                                       !.accessToken = "fresh"]
                ELSE Done([req EXCEPT !.refreshes = @ + 1], 401)
    /\ UNCHANGED <<serverVars, accVars, today, users, ledgers, batch, turns>>

ListUpdateTokens ==
    /\ req.pc = "listUpdate"
    /\ \E ok \in BOOLEAN :
         IF ok
           THEN /\ users' = [users EXCEPT ![req.user].accessToken = req.accessToken]
                /\ req' = [req EXCEPT !.pc = "listRetry"]
           ELSE /\ users' = users
                /\ req' = Done(req, 401)
    /\ UNCHANGED <<serverVars, accVars, today, ledgers, batch, turns>>

\* a retry that answers a second 401 with a second refresh
ListRetryRefreshingAgain ==
    /\ req.pc = "listRetry"
    /\ \E status \in Statuses :
         req' = IF status = 200 THEN Done([req EXCEPT !.retries = @ + 1], 200)
                ELSE IF status = 401
                  THEN [req EXCEPT !.pc = "listRefresh", !.retries = @ + 1]
                ELSE Done([req EXCEPT !.retries = @ + 1], 401)
    /\ UNCHANGED <<serverVars, accVars, today, users, ledgers, batch, turns>>

\* the second authService.listUserSheets; its failure becomes ApiError(401)
ListRetry ==
    /\ req.pc = "listRetry"
    /\ \E status \in Statuses :
         req' = Done([req EXCEPT !.retries = @ + 1], IF status = 200 THEN 200 ELSE 401)
    /\ UNCHANGED <<serverVars, accVars, today, users, ledgers, batch, turns>>

\* validateSheet up to its first await; without a session req.user.id throws
ValidateSheet ==
    /\ req.handler = "none"
    /\ batch.pc = "idle"
    /\ \E who \in Callers, validId \in BOOLEAN :
         LET r == [req EXCEPT !.handler = "validateSheet", !.user = who] IN
         req' = IF ~validId THEN Done(r, 400)
                ELSE IF who = "anonymous" THEN Done(r, 500)
                ELSE [r EXCEPT !.pc = "valAccess", !.accessToken = users[who].accessToken]
    /\ UNCHANGED <<serverVars, accVars, today, users, ledgers, batch, turns>>

\* the catch of validateWithRefresh
ValidateCatch(r, status) ==
    IF status = 401 /\ users[r.user].refreshToken
      THEN [r EXCEPT !.pc = "valRefresh"]
      ELSE Done(r, IF status = 0 THEN 500 ELSE status)

ValidateAccess ==
    /\ req.pc = "valAccess"
    /\ \E status \in Statuses :
         req' = IF status = 200 THEN [req EXCEPT !.pc = "valStructure"]
                ELSE ValidateCatch(req, status)
    /\ UNCHANGED <<serverVars, accVars, today, users, ledgers, batch, turns>>

ValidateStructure ==
    /\ req.pc = "valStructure"
    /\ \E status \in Statuses :
         req' = IF status = 200 THEN Done(req, 200)
                ELSE ValidateCatch(req, status)
    /\ UNCHANGED <<serverVars, accVars, today, users, ledgers, batch, turns>>

ValidateRefresh ==
    /\ req.pc = "valRefresh"
    /\ \E ok \in BOOLEAN :
         req' = IF ok THEN [req EXCEPT !.pc = "valUpdate", !.refreshes = @ + 1,
                                       !.accessToken = "fresh"]
                ELSE Done([req EXCEPT !.refreshes = @ + 1], 401)
    /\ UNCHANGED <<serverVars, accVars, today, users, ledgers, batch, turns>>

ValidateUpdateTokens ==
    /\ req.pc = "valUpdate"
    /\ \E ok \in BOOLEAN :
         IF ok
           THEN /\ users' = [users EXCEPT ![req.user].accessToken = req.accessToken]
                /\ req' = [req EXCEPT !.pc = "valRetryAccess"]
           ELSE /\ users' = users
                /\ req' = Done(req, 500)
    /\ UNCHANGED <<serverVars, accVars, today, ledgers, batch, turns>>

\* the retry: both validations again with the new token, outside any catch
\* of validateWithRefresh
ValidateRetryAccess ==
    /\ req.pc = "valRetryAccess"
    /\ \E status \in Statuses :
         req' = IF status = 200
                  THEN [req EXCEPT !.pc = "valRetryStructure", !.retries = @ + 1]
                  ELSE Done([req EXCEPT !.retries = @ + 1],
                            IF status = 0 THEN 500 ELSE status)
    /\ UNCHANGED <<serverVars, accVars, today, users, ledgers, batch, turns>>

ValidateRetryStructure ==
    /\ req.pc = "valRetryStructure"
    /\ \E status \in Statuses :
         req' = Done(req, IF status = 0 THEN 500 ELSE status)
    /\ UNCHANGED <<serverVars, accVars, today, users, ledgers, batch, turns>>

RequestStep ==
    \/ ListUserSheets
    \/ ListCall
    \/ ListRefresh
    \/ ListUpdateTokens
    \/ ListRetry
    \/ ValidateSheet
    \/ ValidateAccess
    \/ ValidateStructure
    \/ ValidateRefresh
    \/ ValidateUpdateTokens
    \/ ValidateRetryAccess
    \/ ValidateRetryStructure

----------------------------------------------------------------------------
(* The batch and the requests over every credential state of two tenants *)

\* a tenant's row: complete, without refresh token, without sheet, without
\* access token
Credentials ==
    { UserRow(TRUE, "stored", TRUE), UserRow(TRUE, "stored", FALSE),
      UserRow(FALSE, "stored", TRUE), UserRow(TRUE, "none", TRUE) }

\* the debts a tenant's ledger may already hold today's statement of
AccruedToday == [u1 |-> {"d1"}, u2 |-> {"d6"}]

BatchDays == {MakeDate(2025, 0, 10), MakeDate(2025, 0, 15)}

BatchInit ==
    /\ tz = "utc"
    /\ today \in BatchDays
    /\ debts = DebtSheet
    /\ expenses = ExpenseSheet
    /\ history = <<>>
    /\ inv = [p \in Procs |-> NoInvocation]
    /\ started = 0
    /\ users \in [TenantSet -> Credentials]
    /\ ledgers \in {l \in [TenantSet -> SUBSET {"d1", "d6"}] :
                      \A u \in TenantSet : l[u] \subseteq AccruedToday[u]}
    /\ batch = NoBatch
    /\ turns = [u \in TenantSet |-> NoTurn]
    /\ req = NoRequest
    /\ ServerIdle

BatchNext ==
    \/ BatchStart
    \/ BatchStep
    \/ RequestStep

BatchSpec == BatchInit /\ [][BatchNext]_vars

\* an awaited promise settles and the loop resumes: a started run keeps
\* taking steps
BatchFairSpec == BatchSpec /\ WF_vars(BatchStep)


----------------------------------------------------------------------------
(* The batch run day after day over a month, for one tenant with a valid
   credential and the debt d1, its accrual being accrueDebtInternal itself *)

\* the debt as getDebtsObjects hands it to the debt loop
DebtObjectOf(id) == DebtObject(id, debts[id].active, debts[id].cutOffDay)

\* a skipped accrual counted as processed
OutcomeOfNeverSkipped(result) ==
    CASE result.status = "error" -> "failed"
      [] OTHER -> "processed"

\* the counter an outcome of accrueDebtInternal belongs to
OutcomeOf(result) ==
    CASE result.status = "skipped" -> "skipped"
      [] result.status = "created" -> "processed"
      [] OTHER -> "failed"

LastOfMonth(day) == MakeDate(getFullYear(day), getMonth(day) + 1, 0)

\* a run up to the test of the debt loop; invocations goes on counting the
\* calls of all runs
RunBatch ==
    /\ batch.pc = "idle"
    /\ inv["p1"].pc \in Terminal
    /\ batch' = IF DueToday(DebtObjectOf("d1"), getDate(today))
                  THEN [NoBatch EXCEPT !.pc = "accrue", !.u = 1, !.d = 1,
                                       !.call = BatchOptions("d1"),
                                       !.invocations = batch.invocations]
                  ELSE [NoBatch EXCEPT !.pc = "summary",
                                       !.invocations = batch.invocations]
    /\ UNCHANGED <<serverVars, accVars, today, users, ledgers, turns, req>>

\* accrueDebtInternal(sheetsService, debt.id, options) is called
CallAccrual ==
    /\ batch.pc = "accrue"
    /\ started = batch.invocations
    /\ Start("p1", batch.call.debtId, batch.call.recompute, batch.call.dateParam,
             batch.call.periodParam)

\* it has returned or thrown: the run counts the outcome and ends
TallyAccrual ==
    /\ batch.pc = "accrue"
    /\ started = batch.invocations + 1
    /\ inv["p1"].pc \in Terminal
    /\ batch' = Tally([batch EXCEPT !.pc = "summary", !.invocations = @ + 1,
                                    !.result = OutcomeOf(inv["p1"].result)],
                      OutcomeOf(inv["p1"].result))
    /\ UNCHANGED <<serverVars, accVars, today, users, ledgers, turns, req>>

\* the next run is on the next day of the month
NextDay ==
    /\ batch.pc = "summary"
    /\ today < LastOfMonth(today)
    /\ today' = today + 1
    /\ batch' = [batch EXCEPT !.pc = "idle"]
    /\ UNCHANGED <<serverVars, accVars, users, ledgers, turns, req>>

\* the next run is on the same day (triggerDebtAccruals, or a restart)
RunAgain ==
    /\ batch.pc = "summary"
    /\ started < MaxInvocations
    /\ batch' = [batch EXCEPT !.pc = "idle"]
    /\ UNCHANGED <<serverVars, accVars, today, users, ledgers, turns, req>>

\* the steps an accrual without recompute on an empty ledger can take
DailyStep ==
    \/ LoadDebt("p1")
    \/ CheckIdempotency("p1")
    \/ GatherEvents("p1")
    \/ PaymentMade("p1")
    \/ Persist("p1")
    \/ UpdateBalance("p1")
    \/ StoreCallFails("p1")

CutOffDays == 1 .. 31

\* months of 31, 28 and 30 days
MonthStarts == {MakeDate(2025, 0, 1), MakeDate(2025, 1, 1), MakeDate(2025, 3, 1)}

DailyInit ==
    /\ tz = "utc"
    /\ today \in MonthStarts
    /\ \E cutOffDay \in CutOffDays :
         debts = [DebtSheet EXCEPT !["d1"].cutOffDay = <<cutOffDay>>]
    /\ expenses = ExpenseSheet
    /\ history = <<>>
    /\ inv = [p \in Procs |-> NoInvocation]
    /\ started = 0
    /\ AuthIdle
    /\ ServerIdle

DailyNext ==
    \/ RunBatch
    \/ CallAccrual
    \/ DailyStep
    \/ TallyAccrual
    \/ NextDay
    \/ RunAgain

DailySpec == DailyInit /\ [][DailyNext]_vars


----------------------------------------------------------------------------
(* A preview followed by the accrual of the same parameters, over the
   ledgers a first accrual leaves, every store call succeeding *)

PairDebts == {"d1", "d2"}
PairPeriods == {NoPeriod, YM(2025, 1), YM(2025, 2)}

\* a first accrual, which gives the ledger a record, or none when the debt
\* is the inactive d3
FirstAccrual ==
    /\ started = 0
    /\ inv["p2"].pc = "idle"
    /\ \E debtId \in PairDebts \cup {"d3"}, periodParam \in PairPeriods :
         Start("p1", debtId, FALSE, <<>>, periodParam)

\* GET statement-preview: the request's parameters and base date
PreviewRequest ==
    /\ started = 1
    /\ inv["p1"].pc \in Terminal
    /\ inv["p2"].pc = "idle"
    /\ \E id \in PairDebts, recompute \in BOOLEAN, periodParam \in PairPeriods :
         inv' = [inv EXCEPT !["p2"] =
                    [NoInvocation EXCEPT
                        !.pc = "pvGetDebts",
                        !.debtId = id,
                        !.recompute = recompute,
                        !.periodParam = periodParam,
                        !.base = today]]
    /\ UNCHANGED <<serverVars, authVars, tz, today, debts, expenses, history, started>>

\* the accrual of what was previewed
AccrualOfPreviewed ==
    /\ inv["p2"].pc \in Terminal \ {"idle"}
    /\ started = 1
    /\ Start("p1", inv["p2"].debtId, inv["p2"].recompute, inv["p2"].dateParam,
             inv["p2"].periodParam)

PairStep ==
    \/ LoadDebt("p1")
    \/ CheckIdempotency("p1")
    \/ FindRow("p1")
    \/ LoadPreviousRecord("p1")
    \/ GatherEvents("p1")
    \/ CarryOver("p1")
    \/ PaymentMade("p1")
    \/ Persist("p1")
    \/ UpdateBalance("p1")
    \/ PreviewLoadDebt("p2")
    \/ PreviewCheckExisting("p2")
    \/ PreviewGatherEvents("p2")
    \/ PreviewCarryOver("p2")
    \/ PreviewRespond("p2")

PairNext ==
    \/ FirstAccrual
    \/ PreviewRequest
    \/ AccrualOfPreviewed
    \/ PairStep

PairSpec == Init /\ [][PairNext]_vars


----------------------------------------------------------------------------
(* Strings of a request: sequences of characters *)

Digits == <<"0", "1", "2", "3", "4", "5", "6", "7", "8", "9">>

IsDigit(ch) == \E i \in 1 .. Len(Digits) : Digits[i] = ch

DigitValue(ch) == (CHOOSE i \in 1 .. Len(Digits) : Digits[i] = ch) - 1

\* the number the leading digits of s spell, after the digits read so far
RECURSIVE ReadDigits(_, _)
ReadDigits(s, sofar) ==
    IF s = <<>> \/ ~IsDigit(Head(s)) THEN sofar
    ELSE ReadDigits(Tail(s), 10 * sofar + DigitValue(Head(s)))

RECURSIVE TrimStart(_)
TrimStart(s) == IF s # <<>> /\ Head(s) = " " THEN TrimStart(Tail(s)) ELSE s

RECURSIVE TrimEnd(_)
TrimEnd(s) ==
    IF s # <<>> /\ s[Len(s)] = " " THEN TrimEnd(SubSeq(s, 1, Len(s) - 1)) ELSE s

\* String.prototype.trim
Trim(s) == TrimEnd(TrimStart(s))

\* parseInt(s, 10): leading blanks are skipped, a sign is read, then the
\* digits up to the first other character; <<>> is NaN (no digit read, or
\* the parameter is absent)
parseInt(s) ==
    LET t == TrimStart(s)
        signed == t # <<>> /\ Head(t) \in {"-", "+"}
        body == IF signed THEN Tail(t) ELSE t
    IN  IF body = <<>> \/ ~IsDigit(Head(body)) THEN <<>>
        ELSE IF Head(t) = "-" THEN <<0 - ReadDigits(body, 0)>>
        ELSE <<ReadDigits(body, 0)>>

\* isNaN / Number.isFinite of a parsed integer
IsNaN(n) == n = <<>>

----------------------------------------------------------------------------
(* The scheduler's task list (ScheduledTasksService.start and stop) *)

\* calls of start() without a stop() in between
MaxStarts == 2

HandlerIdle == http.pc \in {"idle", "done"}

\* start(): returns at once when the tasks are disabled; otherwise schedules
\* the daily cron task and pushes it on the list
StartScheduler ==
    /\ HandlerIdle
    /\ Len(tasks) < MaxStarts
    /\ tasks' = IF ~config.enabled THEN tasks
                ELSE Append(tasks, "daily-debt-accruals")
    /\ UNCHANGED <<accVars, today, authVars, config, categories, sheetIds, http>>

\* stop(): stops every task of the list and empties it
StopScheduler ==
    /\ HandlerIdle
    /\ tasks' = <<>>
    /\ UNCHANGED <<accVars, today, authVars, config, categories, sheetIds, http>>

----------------------------------------------------------------------------
(* The category handlers (categoryController.js) *)

\* rows a Categories sheet holds at most
MaxCategories == 2

\* req.sheetsService: the service the session middleware binds to the
\* caller's own spreadsheet
reqSheetsService(user) == sheetIds[user]

\* const sheetsService = new GoogleSheetsService(): the module's own
\* instance, constructed once, with no token and no sheet id; create, update
\* and delete call this one
sheetsService == "s0"

\* a body field: <<>> when undefined, else <<the string>>
Names == {<<>>, << <<" ">> >>, << <<" ", "a">> >>}
Colors == {<<>>, <<"#FF5733">>}
IdParams == {<<"1">>, <<"2">>, <<"x">>}

Answer(handler, user, params, status, data) ==
    [NoHttp EXCEPT !.handler = handler, !.pc = "done", !.user = user,
                   !.params = params, !.status = status, !.data = data]

\* the id addCategory gives the new row: the one after the greatest
NextCategoryId(rows) ==
    IF rows = {} THEN 1
    ELSE 1 + CHOOSE n \in {r.id : r \in rows} : \A r \in rows : r.id <= n

Row(rows, id) == CHOOSE r \in rows : r.id = id

HasRow(rows, id) == \E r \in rows : r.id = id

\* getCategories: the rows of the caller's sheet
GetCategories ==
    /\ HandlerIdle
    /\ \E user \in TenantSet, ok \in BOOLEAN :
         http' = IF ok
                 THEN Answer("getCategories", user, <<>>, 200,
                             categories[reqSheetsService(user)])
                 ELSE Answer("getCategories", user, <<>>, 500, {})
    /\ UNCHANGED <<accVars, today, authVars, config, tasks, categories, sheetIds>>

\* createCategory: 400 on a blank name, else addCategory on the module's service
CreateCategory ==
    /\ HandlerIdle
    /\ \E user \in TenantSet, name \in Names, color \in Colors, ok \in BOOLEAN :
         LET params == [name |-> name, color |-> color]
             sheet == sheetsService
             category == Category(NextCategoryId(categories[sheet]), Trim(name[1]),
                                  IF color = <<>> THEN "#6B7280" ELSE color[1])
         IN  IF name = <<>> \/ Trim(name[1]) = <<>>
             THEN /\ http' = Answer("createCategory", user, params, 400, {})
                  /\ UNCHANGED categories
             ELSE IF ~ok \/ Cardinality(categories[sheet]) >= MaxCategories
             THEN /\ http' = Answer("createCategory", user, params, 500, {})
                  /\ UNCHANGED categories
             ELSE /\ categories' = [categories EXCEPT ![sheet] = @ \cup {category}]
                  /\ http' = Answer("createCategory", user, params, 201, {category})
    /\ UNCHANGED <<accVars, today, authVars, config, tasks, sheetIds>>

\* updateCategory: 400 on an id that is no number or on an empty update,
\* else updateCategory on the module's service
UpdateCategory ==
    /\ HandlerIdle
    /\ \E user \in TenantSet, id \in IdParams, name \in Names, color \in Colors,
          ok \in BOOLEAN :
         LET params == [id |-> id, name |-> name, color |-> color]
             sheet == sheetsService
             rows == categories[sheet]
         IN  IF IsNaN(parseInt(id)) \/ (name = <<>> /\ color = <<>>)
             THEN /\ http' = Answer("updateCategory", user, params, 400, {})
                  /\ UNCHANGED categories
             ELSE IF ~ok
             THEN /\ http' = Answer("updateCategory", user, params, 500, {})
                  /\ UNCHANGED categories
             ELSE IF ~HasRow(rows, parseInt(id)[1])
             THEN /\ http' = Answer("updateCategory", user, params, 404, {})
                  /\ UNCHANGED categories
             ELSE LET old == Row(rows, parseInt(id)[1])
                      new == Category(old.id,
                                      IF name = <<>> THEN old.name ELSE Trim(name[1]),
                                      IF color = <<>> THEN old.color ELSE color[1])
                  IN  /\ categories' = [categories EXCEPT ![sheet] = (@ \ {old}) \cup {new}]
                      /\ http' = Answer("updateCategory", user, params, 200, {new})
    /\ UNCHANGED <<accVars, today, authVars, config, tasks, sheetIds>>

\* deleteCategory: 400 on an id that is no number, else deleteCategory on
\* the module's service
DeleteCategory ==
    /\ HandlerIdle
    /\ \E user \in TenantSet, id \in IdParams, ok \in BOOLEAN :
         LET params == [id |-> id]
             sheet == sheetsService
             rows == categories[sheet]
         IN  IF IsNaN(parseInt(id))
             THEN /\ http' = Answer("deleteCategory", user, params, 400, {})
                  /\ UNCHANGED categories
             ELSE IF ~ok
             THEN /\ http' = Answer("deleteCategory", user, params, 500, {})
                  /\ UNCHANGED categories
             ELSE IF ~HasRow(rows, parseInt(id)[1])
             THEN /\ http' = Answer("deleteCategory", user, params, 404, {})
                  /\ UNCHANGED categories
             ELSE LET old == Row(rows, parseInt(id)[1])
                  IN  /\ categories' = [categories EXCEPT ![sheet] = @ \ {old}]
                      /\ http' = Answer("deleteCategory", user, params, 200, {old})
    /\ UNCHANGED <<accVars, today, authVars, config, tasks, sheetIds>>

\* the rows the tenants' sheets hold when the server starts
StoredCategories ==
    [s0 |-> {}, s1 |-> {Category(1, <<"a">>, "#6B7280")}, s2 |-> {}, s3 |-> {}]

ServerInit ==
    /\ tz = "utc"
    /\ today = MakeDate(2025, 0, 15)
    /\ debts = DebtSheet
    /\ expenses = ExpenseSheet
    /\ history = <<>>
    /\ inv = [p \in Procs |-> NoInvocation]
    /\ started = 0
    /\ AuthIdle
    /\ config \in {[enabled |-> TRUE], [enabled |-> FALSE]}
    /\ tasks = <<>>
    /\ categories = StoredCategories
    /\ sheetIds = [u1 |-> "s1", u2 |-> "s2"]
    /\ http = NoHttp

ServerNext ==
    \/ StartScheduler
    \/ StopScheduler
    \/ GetCategories
    \/ CreateCategory
    \/ UpdateCategory
    \/ DeleteCategory

ServerSpec == ServerInit /\ [][ServerNext]_vars

----------------------------------------------------------------------------
(* updateSheetId of the auth controller *)

\* requiredSheets of validateSheetStructure
RequiredSheets ==
    {"Expenses", "Categories", "Budget", "FixedExpenses", "Debts", "CreditHistory"}

\* a value of the request body: its typeof and what it holds
JsValue(type, value) == [type |-> type, value |-> value]

\* !v
Falsy(v) ==
    \/ v.type = "undefined"
    \/ v.type = "string" /\ v.value = ""
    \/ v.type = "number" /\ v.value = "0"

\* !sheetId || typeof sheetId !== 'string'
InvalidSheetId(sheetId) == Falsy(sheetId) \/ sheetId.type # "string"

\* the sheet ids a body carries
SheetIdInputs ==
    {JsValue("undefined", ""), JsValue("number", "7"), JsValue("string", ""),
     JsValue("string", "s2"), JsValue("string", "s3")}

\* the titles of the sheets a spreadsheet may hold
SheetTitles == {RequiredSheets, RequiredSheets \ {"Debts"}, {"Sheet1"}}

\* the result validateSheetStructure returns for a spreadsheet's sheets
StructureResult(existingSheets) ==
    [isValid |-> RequiredSheets \ existingSheets = {},
     missingSheets |-> RequiredSheets \ existingSheets,
     existingSheets |-> existingSheets]

\* the structure check that lets every spreadsheet through
StructureNeverRejected(validationResult) == FALSE

\* !validationResult.isValid
StructureRejected(validationResult) == ~validationResult.isValid

\* an ApiError of the Google status, or the fetch's own error
ErrorStatus(status) == IF status = 0 THEN 500 ELSE status

\* updateSheetId up to its first await
UpdateSheetId ==
    /\ HandlerIdle
    /\ \E user \in TenantSet, sheetId \in SheetIdInputs, skipValidation \in BOOLEAN :
         LET params == [sheetId |-> sheetId, skipValidation |-> skipValidation] IN
         http' = IF InvalidSheetId(sheetId)
                 THEN Answer("updateSheetId", user, params, 400, {})
                 ELSE [NoHttp EXCEPT
                         !.handler = "updateSheetId", !.pc = "validateSheetAccess",
                         !.user = user, !.params = params,
                         !.locals = [sheetMetadata |-> <<>>, validationResult |-> <<>>]]
    /\ UNCHANGED <<accVars, today, authVars, config, tasks, categories, sheetIds>>

\* authService.validateSheetAccess(req.user.accessToken, sheetId)
UpdateSheetIdAccess ==
    /\ http.handler = "updateSheetId"
    /\ http.pc = "validateSheetAccess"
    /\ \E status \in Statuses :
         http' = IF status # 200
                 THEN Answer("updateSheetId", http.user, http.params, ErrorStatus(status), {})
                 ELSE [http EXCEPT
                         !.pc = IF http.params.skipValidation
                                THEN "updateUserSheetId" ELSE "validateSheetStructure",
                         !.locals.sheetMetadata =
                             <<[spreadsheetId |-> http.params.sheetId.value,
                                token |-> http.user]>>]
    /\ UNCHANGED <<accVars, today, authVars, config, tasks, categories, sheetIds>>

\* authService.validateSheetStructure(req.user.accessToken, sheetId) and the
\* 400 on a structure that is not valid
UpdateSheetIdStructure ==
    /\ http.handler = "updateSheetId"
    /\ http.pc = "validateSheetStructure"
    /\ \E status \in Statuses, existingSheets \in SheetTitles :
         LET validationResult == StructureResult(existingSheets) IN
         http' = IF status # 200
                 THEN Answer("updateSheetId", http.user, http.params, ErrorStatus(status), {})
                 ELSE IF StructureRejected(validationResult)
                 THEN Answer("updateSheetId", http.user, http.params, 400, {validationResult})
                 ELSE [http EXCEPT !.pc = "updateUserSheetId",
                                   !.locals.validationResult = <<validationResult>>]
    /\ UNCHANGED <<accVars, today, authVars, config, tasks, categories, sheetIds>>

\* userSheetService.updateUserSheetId(req.user.googleId, sheetId) and the response
UpdateUserSheetId ==
    /\ http.handler = "updateSheetId"
    /\ http.pc = "updateUserSheetId"
    /\ \E ok \in BOOLEAN :
         IF ok
         THEN /\ sheetIds' = [sheetIds EXCEPT ![http.user] = http.params.sheetId.value]
              /\ http' = Answer("updateSheetId", http.user, http.params, 200,
                                {http.params.sheetId.value})
         ELSE /\ http' = Answer("updateSheetId", http.user, http.params, 500, {})
              /\ UNCHANGED sheetIds
    /\ UNCHANGED <<accVars, today, authVars, config, tasks, categories>>

SheetNext ==
    \/ UpdateSheetId
    \/ UpdateSheetIdAccess
    \/ UpdateSheetIdStructure
    \/ UpdateUserSheetId

SheetSpec == Init /\ [][SheetNext]_vars

----------------------------------------------------------------------------
(* getDebtInstallments of the debt controller *)

\* monthlyRateFromAnnualEffective of utils/finance.js: the annual rate
\* spread evenly over twelve months; rates in 1/10000
monthlyRateFromAnnualEffective(annualRate) == annualRate \div 12

\* interestForMonth of utils/finance.js: a month's interest on a balance
interestForMonth(balance, monthlyRate) == (balance * monthlyRate) \div 10000

\* Math.pow(1 + r, n), in 1/10000
RECURSIVE Pow1p(_, _)
Pow1p(r, n) == IF n = 0 THEN 10000 ELSE (Pow1p(r, n - 1) * (10000 + r)) \div 10000

\* the equal payment: principal * (r * (1 + r)^n) / ((1 + r)^n - 1) when the
\* monthly rate is positive, else principal / months; amounts in 1/100 of a cent
Payment(principal, monthlyRate, months) ==
    IF monthlyRate > 0
    THEN LET grown == Pow1p(monthlyRate, months)
             factor == monthlyRate + (monthlyRate * 10000) \div (grown - 10000)
         IN  (principal * factor) \div 10000
    ELSE IF months > 0 THEN principal \div months ELSE principal

\* the loop of getDebtInstallments from period i + 1 on: one row a month,
\* until the balance left is paid
RECURSIVE Schedule(_, _, _, _, _, _)
Schedule(i, months, remaining, payment, monthlyRate, startDate) ==
    IF i >= months THEN <<>>
    ELSE LET y == getFullYear(startDate)
             m == getMonth(startDate) + i
             date == MakeDate(y, m, Min(getDate(startDate), LastDayOfMonth(y, m)))
             interest == interestForMonth(remaining, monthlyRate)
             principalPart == Min(Max(payment - interest, 0), remaining)
             left == Max(0, remaining - principalPart)
             entry == [period |-> i + 1,
                       date |-> MakeDate(getFullYear(date), getMonth(date), 1),
                       payment |-> ToFixed2(payment),
                       interest |-> ToFixed2(interest),
                       principal |-> ToFixed2(principalPart),
                       remainingBalance |-> ToFixed2(left)]
         IN  IF left <= 0 THEN <<entry>>
             ELSE <<entry>> \o Schedule(i + 1, months, left, payment,
                                        monthlyRate, startDate)

\* the months parameter as the query carries it; <<>> when it is absent
MonthsParams ==
    {<<>>, <<"a">>, <<"0">>, <<"-", "2">>, <<"1">>, <<"2">>, <<"3">>, <<"3", "a">>}

\* the start parameter: absent, or a day
StartParams == {<<>>, <<MakeDate(2025, 0, 31)>>}

\* getDebtInstallments up to its first await
GetDebtInstallments ==
    /\ HandlerIdle
    /\ \E user \in TenantSet, id \in {"d1", "d2", "dx"}, monthsParam \in MonthsParams,
          startStr \in StartParams :
         LET params == [id |-> id, months |-> monthsParam, start |-> startStr]
             months == parseInt(monthsParam)
         IN  http' = IF IsNaN(months) \/ months[1] <= 0
                     THEN Answer("getDebtInstallments", user, params, 400, <<>>)
                     ELSE [NoHttp EXCEPT
                             !.handler = "getDebtInstallments", !.pc = "getDebts",
                             !.user = user, !.params = params,
                             !.locals = [months |-> months[1]]]
    /\ UNCHANGED <<accVars, today, authVars, config, tasks, categories, sheetIds>>

\* req.sheetsService.getDebts() rejects
InstallmentsStoreFails ==
    /\ http.handler = "getDebtInstallments"
    /\ http.pc = "getDebts"
    /\ http' = Answer("getDebtInstallments", http.user, http.params, 500, <<>>)
    /\ UNCHANGED <<accVars, today, authVars, config, tasks, categories, sheetIds>>

\* the rows are back: 404 when no row has the id, else the plan
InstallmentsRespond ==
    /\ http.handler = "getDebtInstallments"
    /\ http.pc = "getDebts"
    /\ LET id == http.params.id
           months == http.locals.months
       IN  IF id \notin DOMAIN debts
           THEN http' = Answer("getDebtInstallments", http.user, http.params, 404, <<>>)
           ELSE LET debt == debts[id]
                    monthlyRate == monthlyRateFromAnnualEffective(debt.interesEfectivo)
                    startDate ==
                        IF http.params.start # <<>>
                          THEN ParseDateParam(http.params.start[1])
                        ELSE IF debt.dueDay # <<>>
                          THEN nextDateForDayOfMonth(debt.dueDay[1], today)
                        ELSE today
                    principal == 100 * Max(0, debt.balance)
                    payment == Payment(principal, monthlyRate, months)
                    schedule == Schedule(0, months, principal, payment, monthlyRate,
                                         startDate)
                IN  http' = Answer("getDebtInstallments", http.user, http.params, 200,
                                   <<[balance |-> ToFixed2(principal),
                                      payment |-> ToFixed2(payment),
                                      months |-> Len(schedule),
                                      schedule |-> schedule]>>)
    /\ UNCHANGED <<accVars, today, authVars, config, tasks, categories, sheetIds>>

\* the balances (in cents) and annual rates of the debt the plans are asked for
PlanBalances == {0 - 500, 0, 1, 1000}
PlanRates == {0, 1800}

InstallmentInit ==
    /\ tz = "utc"
    /\ today = MakeDate(2025, 0, 15)
    /\ \E balance \in PlanBalances, rate \in PlanRates :
         debts = [DebtSheet EXCEPT !["d1"].balance = balance,
                                   !["d1"].interesEfectivo = rate]
    /\ expenses = ExpenseSheet
    /\ history = <<>>
    /\ inv = [p \in Procs |-> NoInvocation]
    /\ started = 0
    /\ AuthIdle
    /\ ServerIdle

InstallmentNext ==
    \/ GetDebtInstallments
    \/ InstallmentsStoreFails
    \/ InstallmentsRespond

InstallmentSpec == InstallmentInit /\ [][InstallmentNext]_vars

----------------------------------------------------------------------------
(* Properties *)

SameKey(r, debtId, statementDateStr) ==
    r.debtId = debtId /\ r.statementDate = statementDateStr

RecordsOf(debtId, statementDateStr) ==
    {i \in 1 .. Len(history) : SameKey(history[i], debtId, statementDateStr)}

\* C1: once a statement for (debtId, statementDate) is in the ledger, a later
\* accrual with recompute=false resolving to the same statementDate writes
\* nothing before its idempotency check, and the check ends it: skipped=true
\* with that statementDate (or the error of a failed history read), ledger
\* and balances unchanged.
C1_SecondAccrualSkipped ==
    [][\A p \in Procs :
        LET c == inv[p]
            d == inv'[p]
        IN  /\ (d # c /\ ~d.recompute /\ d.pc \in {"getDebts", "getHistory"})
                => (history' = history /\ debts' = debts)
            /\ (/\ d # c
                /\ c.pc = "getHistory"
                /\ ~c.recompute
                /\ Exists(history, c.debtId, toISODate(c.statementDate)))
                => /\ history' = history
                   /\ debts' = debts
                   /\ \/ d.pc = "failed"
                      \/ /\ d.pc = "skipped"
                         /\ d.result.status = "skipped"
                         /\ d.result.reason = "Already accrued for this statementDate"
                         /\ d.result.statementDate = <<toISODate(c.statementDate)>>]_vars

C1_Witness ==
    /\ inv["p1"].pc = "skipped"
    /\ ~inv["p1"].recompute
    /\ inv["p1"].result.reason = "Already accrued for this statementDate"
    /\ Len(history) = 1
    /\ SameKey(history[1], inv["p1"].debtId, inv["p1"].result.statementDate[1])

\* C2: when invocations do not overlap, the ledger never holds two records
\* with the same (debtId, statementDate).
C2_OneRecordPerKey ==
    \A i, j \in 1 .. Len(history) :
        SameKey(history[i], history[j].debtId, history[j].statementDate) => i = j

C2_Witness ==
    /\ started = 2
    /\ Len(history) = 1
    /\ inv["p1"].pc = "updateDebt"
    /\ inv["p1"].recompute
    /\ inv["p1"].exists
    /\ SameKey(history[1], inv["p1"].debtId, inv["p1"].statementDateStr)

\* C3: two overlapping accruals for the same (debtId, statementDate) with
\* recompute=false that both got past the existence check have both
\* appended: the ledger holds two records with that key.
HasWritten(p) ==
    \/ inv[p].pc = "updateDebt"
    \/ inv[p].pc = "done" /\ inv[p].result.status = "created"

WrittenDate(p) ==
    IF inv[p].pc = "updateDebt" THEN inv[p].statementDateStr
    ELSE inv[p].result.statementDate[1]

C3_RaceAppendsTwice ==
    \A p, q \in Procs :
        (/\ p # q
         /\ HasWritten(p) /\ HasWritten(q)
         /\ ~inv[p].recompute /\ ~inv[q].recompute
         /\ inv[p].debtId = inv[q].debtId
         /\ WrittenDate(p) = WrittenDate(q))
            => Cardinality(RecordsOf(inv[p].debtId, WrittenDate(p))) >= 2

C3_Witness ==
    /\ inv["p1"].pc = "done" /\ inv["p2"].pc = "done"
    /\ ~inv["p1"].recompute /\ ~inv["p2"].recompute
    /\ inv["p1"].result.status = "created" /\ inv["p2"].result.status = "created"
    /\ Len(history) = 2
    /\ SameKey(history[1], history[2].debtId, history[2].statementDate)

C5_NoPartialStateOnError ==
    (started = 1 /\ inv["p1"].pc = "failed")
        => (history = <<>> /\ debts = DebtSheet)

\* C6: the window of the cycle after a persisted statement begins on the
\* day that statement's window ends, its statementDate.
DatesResolved(p) ==
    inv[p].pc \in {"getHistory", "findRow", "getByRow", "getExpenses", "sumPrevPaid",
                   "sumPaymentMade", "write", "updateDebt"}

C6_WindowsAdjacent ==
    \A p \in Procs :
        DatesResolved(p) =>
            \A i \in RecordsOf(inv[p].debtId, toISODate(inv[p].prevStatementDate)) :
                toISODate(StartPeriod(inv[p].prevStatementDate)) = history[i].statementDate

\* C7: every statement, persisted, about to be persisted or returned by the
\* accrual or the preview, has
\* statementBalance = max(0, previousBalance + charges + interests - payments)
\* and so is never negative.
Statements ==
    {history[i] : i \in 1 .. Len(history)}
        \cup {inv[p].record[1] : p \in {q \in Procs : inv[q].record # <<>>}}
        \cup {inv[p].result.data[1] : p \in {q \in Procs : inv[q].result.data # <<>>}}

RawBalance(r) == r.previousBalance + r.charges + r.interests - r.payments

C7_StatementBalanceFloor ==
    \A r \in Statements :
        /\ r.statementBalance = (IF RawBalance(r) > 0 THEN RawBalance(r) ELSE 0)
        /\ r.statementBalance >= 0

C7_Witness ==
    /\ \E i \in 1 .. Len(history) :
          history[i].statementBalance = 0 /\ RawBalance(history[i]) < 0
    /\ \E p \in Procs :
          /\ inv[p].result.status = "preview"
          /\ inv[p].result.data[1].statementBalance = 0
          /\ RawBalance(inv[p].result.data[1]) < 0

\* C8: with a cutoff day and no period, statementDate is the cutoff date of
\* the base date's month (the cutoff day clamped to the month's length) when
\* the base day is at or after it, else the clamped cutoff date of the
\* month before; it is never later than the base date.
Resolved(p) == inv[p].pc \in {"getHistory", "pvGetHistory"}

CutoffIn(y, m, cutOffDay) ==
    IF cutOffDay[1] < MonthLength(y, m) THEN cutOffDay[1] ELSE MonthLength(y, m)

C8_LatestCutoffOnOrBeforeBase ==
    \A p \in Procs :
        (Resolved(p) /\ inv[p].periodParam = NoPeriod /\ IsFinite(inv[p].debt[1].cutOffDay))
            => LET base == inv[p].base
                   cut == inv[p].debt[1].cutOffDay
                   y == YearOfDay(base)
                   m == MonthOfDay(base)
                   py == IF m = 0 THEN y - 1 ELSE y
                   pm == IF m = 0 THEN 11 ELSE m - 1
                   firstOfMonth == DaysBeforeYear(y) + DaysBeforeMonth(y, m)
                   firstOfPrev == DaysBeforeYear(py) + DaysBeforeMonth(py, pm)
               IN  /\ inv[p].statementDate =
                          IF base - firstOfMonth + 1 >= CutoffIn(y, m, cut)
                          THEN firstOfMonth + CutoffIn(y, m, cut) - 1
                          ELSE firstOfPrev + CutoffIn(py, pm, cut) - 1
                   /\ inv[p].statementDate <= base

C8_Witness ==
    \E p \in Procs :
        /\ Resolved(p)
        /\ inv[p].periodParam = NoPeriod
        /\ inv[p].debt[1].cutOffDay = <<31>>
        /\ inv[p].base = MakeDate(2024, 2, 30)
        /\ inv[p].statementDate = MakeDate(2024, 1, 29)

\* C9: with a YYYY-MM period, statementDate is that month's cutoff day
\* clamped to the month's length, or the month's last day without a cutoff
\* day; with no period and no cutoff day it is the last day of the month
\* before the base date.
C9_PeriodStatementDate ==
    \A p \in Procs :
        Resolved(p) =>
            LET c == inv[p]
                cut == c.debt[1].cutOffDay
                y == c.periodParam.y
                m == c.periodParam.mm - 1
                firstOfPeriod == DaysBeforeYear(y) + DaysBeforeMonth(y, m)
                firstOfBase ==
                    DaysBeforeYear(YearOfDay(c.base))
                        + DaysBeforeMonth(YearOfDay(c.base), MonthOfDay(c.base))
            IN  /\ (c.periodParam.kind = "ym" /\ IsFinite(cut))
                    => c.statementDate = firstOfPeriod + CutoffIn(y, m, cut) - 1
                /\ (c.periodParam.kind = "ym" /\ ~IsFinite(cut))
                    => c.statementDate = firstOfPeriod + MonthLength(y, m) - 1
                /\ (c.periodParam = NoPeriod /\ ~IsFinite(cut))
                    => c.statementDate = firstOfBase - 1

C9_Witness ==
    \E p \in Procs :
        /\ Resolved(p)
        /\ inv[p].periodParam = YM(2025, 2)
        /\ inv[p].debt[1].cutOffDay = <<30>>
        /\ inv[p].statementDate = MakeDate(2025, 1, 28)

\* C10: every persisted statement has its dueDate on or after its
\* statementDate.
C10_DueOnOrAfterStatement ==
    \A i \in 1 .. Len(history) : history[i].dueDate >= history[i].statementDate

\* C11: once an accrual or a preview has determined previousBalance, it is
\* the statementBalance of the debt's ledger record with the greatest
\* statementDate strictly before the current one, and the debt's stored
\* balance only when the debt has no such record; records of other debts
\* and records dated at or after the current statementDate play no part.
PreviousBalanceKnown(p) ==
    inv[p].pc \in {"findRow", "getByRow", "getExpenses", "sumPrevPaid", "sumPaymentMade",
                   "write", "updateDebt", "pvGetExpenses", "pvSumPrevPaid",
                   "pvSumPaymentMade"}

PriorRecords(debtId, statementDateStr) ==
    {i \in 1 .. Len(history) :
        history[i].debtId = debtId /\ history[i].statementDate < statementDateStr}

EventsGathered(p) == inv[p].pc \in {"sumPrevPaid", "sumPaymentMade", "write", "updateDebt"}

WindowRows(c, kinds) ==
    {i \in 1 .. Len(expenses) :
        /\ expenses[i].debtId = c.debtId
        /\ c.prevStatementDate + 1 <= expenses[i].date
        /\ expenses[i].date < c.statementDate
        /\ expenses[i].amount > 0
        /\ ToLowerCase(expenses[i].entryType) \in kinds}

RECURSIVE SumRows(_)
SumRows(rows) ==
    IF rows = {} THEN 0
    ELSE LET i == CHOOSE j \in rows : TRUE
         IN  expenses[i].amount + SumRows(rows \ {i})

EventOfRow(i) ==
    [date |-> expenses[i].date, kind |-> ToLowerCase(expenses[i].entryType),
     amount |-> expenses[i].amount]

C12_EventsAreTheWindowRows ==
    \A p \in Procs :
        EventsGathered(p) =>
            LET c == inv[p]
                rows == WindowRows(c, {"charge", "payment"})
                events == c.periodEvents
            IN  /\ Len(events) = Cardinality(rows)
                /\ \A i \in rows :
                      Cardinality({k \in 1 .. Len(events) : events[k] = EventOfRow(i)})
                          = Cardinality({j \in rows : EventOfRow(j) = EventOfRow(i)})
                /\ c.record # <<>> =>
                      /\ c.record[1].charges = SumRows(WindowRows(c, {"charge"}))
                      /\ c.record[1].payments = SumRows(WindowRows(c, {"payment"}))

\* a sheet with a row on the cutoff day, a row of a non-positive amount and
\* a counted charge: only the last is in the record
C12_Witness ==
    /\ inv["p1"].pc = "updateDebt"
    /\ \E i, j, k \in 1 .. Len(expenses) :
          /\ expenses[i].date = inv["p1"].statementDate /\ expenses[i].amount > 0
          /\ expenses[j].amount < 0 /\ expenses[j].date < inv["p1"].statementDate
          /\ k \in WindowRows(inv["p1"], {"charge"})
    /\ inv["p1"].record[1].charges = 3000
    /\ inv["p1"].record[1].payments = 0

\* C13: the event list handed to the interest calculation is in ascending
\* date order and, within a date, no charge comes before a payment,
\* whatever the order of the rows in the Expenses sheet.
C13_EventsSortedPaymentsFirst ==
    \A p \in Procs :
        EventsGathered(p) =>
            LET events == inv[p].periodEvents
            IN  \A i, j \in 1 .. Len(events) :
                    i < j =>
                        /\ events[i].date <= events[j].date
                        /\ (events[i].date = events[j].date /\ events[i].kind = "charge")
                               => events[j].kind = "charge"

\* the sheet has a charge above a same-day payment and an earlier payment
\* below both; the list has the earlier payment, then the payment, then
\* the charge
C13_Witness ==
    /\ EventsGathered("p1")
    /\ Len(inv["p1"].periodEvents) = 3
    /\ expenses[1].date = expenses[2].date
    /\ ToLowerCase(expenses[1].entryType) = "charge"
    /\ ToLowerCase(expenses[2].entryType) = "payment"
    /\ expenses[3].date < expenses[2].date
    /\ inv["p1"].periodEvents[1].date = expenses[3].date
    /\ inv["p1"].periodEvents[2].kind = "payment"
    /\ inv["p1"].periodEvents[2].date = expenses[1].date
    /\ inv["p1"].periodEvents[3].kind = "charge"

\* C14: the step that ends a successful accrual sets the debt's stored
\* balance to the statement's statementBalance plus the charges minus the
\* payments of the debt dated after statementDate and up to the current
\* day, and changes no other field of the debt and no other debt; no other
\* step of an accrual changes a debt.
RowsAfterStatement(c, kind) ==
    {i \in 1 .. Len(expenses) :
        /\ expenses[i].debtId = c.debtId
        /\ expenses[i].date > c.statementDate
        /\ expenses[i].date <= today
        /\ ToLowerCase(expenses[i].entryType) = kind}

C14_BalanceAfterAccrual ==
    [][/\ \A p \in Procs :
            (inv[p].pc = "updateDebt" /\ inv'[p].pc = "done")
                => LET c == inv[p]
                   IN  debts' = [debts EXCEPT ![c.debtId].balance =
                                    c.record[1].statementBalance
                                        + SumRows(RowsAfterStatement(c, "charge"))
                                        - SumRows(RowsAfterStatement(c, "payment"))]
       /\ (debts' # debts)
              => \E q \in Procs : inv[q].pc = "updateDebt" /\ inv'[q].pc = "done"]_vars

\* an accrual has ended with rows after the statement, one of them later
\* than today: the balance differs from the statement's and d2 is as it was
C14_Witness ==
    /\ inv["p1"].pc = "done"
    /\ inv["p1"].result.status = "created"
    /\ \E i, j \in 1 .. Len(expenses) :
          /\ expenses[i].date > today
          /\ expenses[j].date <= today
          /\ expenses[j].entryType = "payment"
          /\ expenses[j].date > MakeDate(2025, 0, 15)
    /\ debts["d1"].balance = inv["p1"].result.data[1].statementBalance - 60
    /\ debts["d2"] = DebtRow(500, <<>>, <<>>, 1800, TRUE)

\* C15: the load step of an accrual for a debtId no row has ends it with
\* the error 404 'Debt not found', and for a row that is not active with
\* skipped=true and the reason 'Debt is inactive' (or, in both cases, with
\* the error of a failed getDebts); the ledger and the debts are unchanged
\* by that step and by the start of the invocation.
C15_AbsentOrInactiveDebt ==
    [][\A p \in Procs :
        LET c == inv[p]
            d == inv'[p]
            absent == c.debtId \notin DOMAIN debts
        IN  /\ (d # c /\ d.pc = "getDebts") => (history' = history /\ debts' = debts)
            /\ (d # c /\ c.pc = "getDebts" /\ (absent \/ ~debts[c.debtId].active))
                  => /\ history' = history
                     /\ debts' = debts
                     /\ d.pc \in Terminal
                     /\ \/ d.result.status = "error" /\ d.result.code = 500
                        \/ /\ absent
                           /\ d.result.status = "error"
                           /\ d.result.code = 404
                           /\ d.result.reason = "Debt not found"
                        \/ /\ ~absent
                           /\ d.result.status = "skipped"
                           /\ d.result.reason = "Debt is inactive"]_vars

\* after an accrual that wrote a statement, an accrual of the inactive d3
\* has been skipped: the ledger still has the one record
C15_Witness ==
    /\ started = 2
    /\ inv["p1"].debtId = "d3"
    /\ inv["p1"].pc = "skipped"
    /\ inv["p1"].result.reason = "Debt is inactive"
    /\ Len(history) = 1
    /\ debts["d3"] = DebtSheet["d3"]

\* C16: an accrual or a preview of an active debt whose period parameter is
\* present and is not YYYY-MM with a month 01 to 12 (it fails the pattern,
\* or its month is out of range) never gets past the date resolution: it
\* ends in an error and writes nothing.
MalformedPeriod(period) ==
    \/ period.kind = "nomatch"
    \/ period.kind = "ym" /\ (period.mm < 1 \/ period.mm > 12)

C16_MalformedPeriodRejected ==
    \A p \in Procs :
        (/\ MalformedPeriod(inv[p].periodParam)
         /\ inv[p].debtId \in DOMAIN debts
         /\ debts[inv[p].debtId].active)
            => \/ inv[p].pc \in {"getDebts", "pvGetDebts"}
               \/ inv[p].pc = "failed" /\ inv[p].result.status = "error"

\* C17: an accrual that got past the carry-over lookup of a previous
\* statement carries the interest computed from that statement's payments:
\* no statement is computed from a carry-over defaulted on a failed lookup.
CarryOverDone(p) == inv[p].pc \in {"sumPaymentMade", "write", "updateDebt"}

C17_CarryOverFailurePropagates ==
    \A p \in Procs :
        (CarryOverDone(p) /\ inv[p].lastForDebt # <<>>)
            => LET c == inv[p]
                   last == c.lastForDebt[1]
               IN  c.interestCarryOver =
                       ComputeInterestCarryOver(last,
                           SumPaymentsForDebt(expenses, c.debtId, last.statementDate,
                                              last.dueDate))

\* C18: the balance an accrual has stored for the debt is what the rows
\* that count give: rows with amount <= 0 or an entry type other than
\* charge or payment have no part in it.
FromISODate(s) == IF tz = "east" THEN s + 1 ELSE s

CountedRowsAfter(debtId, statementDate, kind) ==
    {i \in 1 .. Len(expenses) :
        /\ expenses[i].debtId = debtId
        /\ expenses[i].date > statementDate
        /\ expenses[i].date <= today
        /\ expenses[i].amount > 0
        /\ ToLowerCase(expenses[i].entryType) = kind}

C18_IgnoredRowsNeverCount ==
    \A p \in Procs :
        (started = 1 /\ inv[p].pc = "done" /\ inv[p].result.status = "created")
            => LET r == inv[p].result
                   statementDate == FromISODate(r.statementDate[1])
               IN  debts[inv[p].debtId].balance =
                       r.data[1].statementBalance
                           + SumRows(CountedRowsAfter(inv[p].debtId, statementDate, "charge"))
                           - SumRows(CountedRowsAfter(inv[p].debtId, statementDate, "payment"))

\* C19: in every statement installmentBalance is statementBalance plus
\* bonifiableInterest, and the bonifiable interest is in neither
\* statementBalance, which is the floored sum of previousBalance, charges
\* and interests less payments, nor interests, which is the rounded
\* interest on the balance plus the carry-over.
C19_BonifiableOnlyInInstallmentBalance ==
    /\ \A r \in Statements :
          /\ r.installmentBalance = r.statementBalance + r.bonifiableInterest
          /\ r.statementBalance =
                 Max(0, r.previousBalance + r.charges + r.interests - r.payments)
    /\ \A p \in Procs :
          inv[p].record # <<>> =>
              LET c == inv[p]
              IN  c.record[1].interests =
                      ToFixed2(InterestSobreSaldo(c.previousBalance, c.periodEvents,
                                   NormalizeAnnualRate(c.debt[1].interesEfectivo),
                                   StartPeriod(c.prevStatementDate), c.statementDate)
                               + c.interestCarryOver)

\* a persisted statement and a preview with a bonifiable interest above
\* zero and a balance above zero
C19_Witness ==
    /\ \E i \in 1 .. Len(history) :
          /\ history[i].bonifiableInterest > 0
          /\ history[i].statementBalance > 0
          /\ history[i].installmentBalance > history[i].statementBalance
    /\ \E p \in Procs :
          /\ inv[p].result.status = "preview"
          /\ inv[p].result.data[1].bonifiableInterest > 0
          /\ inv[p].result.data[1].installmentBalance
                 > inv[p].result.data[1].statementBalance

\* C20: the rate of a statement's record is the debt's stored rate divided
\* by 100 when the stored rate is above 1 and the stored rate itself
\* otherwise; the statement computed with the stored rate 18 is the one
\* computed with the stored rate 0.18.
WithStoredRate(c, rate) == [c EXCEPT !.debt = <<[c.debt[1] EXCEPT !.interesEfectivo = rate]>>]

C20_RateNormalised ==
    \A p \in Procs :
        inv[p].record # <<>> =>
            LET c == inv[p]
                stored == c.debt[1].interesEfectivo
                paymentMade == c.record[1].paymentMade
            IN  /\ c.record[1].annualEffectiveRate =
                       (IF stored > 10000 THEN stored \div 100 ELSE stored)
                /\ BuildRecord(WithStoredRate(c, 180000), paymentMade)
                       = BuildRecord(WithStoredRate(c, 1800), paymentMade)
                /\ stored \in {1800, 180000}
                       => c.record[1] = BuildRecord(WithStoredRate(c, 1800), paymentMade)

\* a statement with interest above zero of a debt whose stored rate is 18:
\* its record has the rate 0.18
C20_Witness ==
    /\ inv["p1"].pc = "write"
    /\ inv["p1"].debt[1].interesEfectivo = 180000
    /\ inv["p1"].record[1].annualEffectiveRate = 1800
    /\ inv["p1"].record[1].interests > 0
    /\ inv["p1"].record[1].bonifiableInterest > 0

\* C21: no step of a statement preview, from its start to its response
\* (computed, cached, skipped or error), changes the CreditHistory ledger
\* or any debt.
PreviewPcs == {"pvGetDebts", "pvGetHistory", "pvGetExpenses", "pvSumPrevPaid", "pvSumPaymentMade"}

C21_PreviewNeverWrites ==
    [][\A p \in Procs :
        (inv'[p] # inv[p] /\ (inv[p].pc \in PreviewPcs \/ inv'[p].pc = "pvGetDebts"))
            => (history' = history /\ debts' = debts)]_vars

\* a preview with recompute of a statement the ledger already has: the
\* ledger still has that one record and the debt the balance the accrual
\* gave it
C21_Witness ==
    /\ started = 2
    /\ inv["p1"].result.status = "preview"
    /\ inv["p1"].recompute
    /\ Len(history) = 1
    /\ history[1].debtId = inv["p1"].debtId
    /\ history[1].statementDate = inv["p1"].result.data[1].statementDate
    /\ debts # DebtSheet

\* C22: every call of accrueDebtInternal the batch makes in a tenant's debt
\* loop is for a debt of that tenant that is active and whose cut-off day is today's day
\* of the month, with recompute off, no date and no period.
Turn == TenantList[batch.u]

C22_BatchAccruesDueDebtsOnly ==
    (batch.pc \in {"debt", "accrue"} /\ batch.call # NoCall) =>
        /\ \E i \in 1 .. Len(TenantDebts[Turn]) :
              LET debt == TenantDebts[Turn][i] IN
              /\ debt.id = batch.call.debtId
              /\ debt.active
              /\ debt.cutOffDay = <<getDate(today)>>
        /\ ~batch.call.recompute
        /\ batch.call.dateParam = <<>>
        /\ batch.call.periodParam = NoPeriod

\* on the 15th the batch has passed over the inactive d3 and d2 (cut-off
\* day 10) of the first tenant and called the accrual of d4
C22_Witness ==
    /\ getDate(today) = 15
    /\ batch.u = 1
    /\ batch.invocations = 2
    /\ batch.call = BatchOptions("d4")
    /\ turns["u1"].examined = 4

\* C23: once the tenant list has loaded, the batch reaches its final summary,
\* and by then every tenant has had its turn and every debt of a tenant
\* whose debts were loaded has been examined, whatever failed before it.
TurnsComplete ==
    \A u \in TenantSet :
        /\ turns[u].state # "pending"
        /\ turns[u].state = "done" => turns[u].examined = Len(TenantDebts[u])

C23_BatchReachesSummary ==
    (batch.pc = "user") ~> (batch.pc = "summary" /\ TurnsComplete)

\* the summary of a run in which the first tenant's turn failed and an
\* accrual of the second tenant threw
C23_Witness ==
    /\ batch.pc = "summary"
    /\ turns["u1"].state \in {"failed", "probeFailed", "refreshFailed", "noAccess"}
    /\ turns["u2"].state = "done"
    /\ batch.result = "failed"
    /\ turns["u2"].examined = Len(TenantDebts["u2"])

\* C24: a step that ends a tenant's turn because its credential could not
\* be validated or refreshed (the probe throws, the probe answers a status
\* that is neither OK nor 401, the refresh fails) adds one to totalErrors.
CredentialSkips == {"probeFailed", "noAccess", "refreshFailed"}

C24_CredentialSkipCounted ==
    [][\A u \in TenantSet :
        (turns[u].state = "pending" /\ turns'[u].state \in CredentialSkips)
            => (batch'.totalErrors = batch.totalErrors + 1)]_vars

\* C25: when the probe answered 401 and the tenant has a refresh token,
\* the debts are loaded only after exactly one refresh whose token is the
\* stored one, and every store call of the turn carries the new token.
InDebtLoop == batch.pc \in {"getDebts", "debt", "accrue"}

C25_RefreshedOncePersistedThenUsed ==
    (InDebtLoop /\ batch.probe = 401 /\ users[Turn].refreshToken) =>
        /\ batch.refreshes = 1
        /\ batch.accessToken = "fresh"
        /\ users[Turn].accessToken = "fresh"
        /\ batch.storeTokens \subseteq {"fresh"}

\* after a 401 and a refresh the debts were loaded and an accrual called,
\* both with the new token
C25_Witness ==
    /\ batch.pc = "debt"
    /\ batch.probe = 401
    /\ batch.refreshes = 1
    /\ batch.invocations > 0
    /\ batch.storeTokens = {"fresh"}
    /\ users[Turn].accessToken = "fresh"

\* C26: in a turn whose probe answered 401, no store call is made with
\* the token the probe was made with.
C26_NoStoreCallWithExpiredToken ==
    batch.probe = 401 => "stored" \notin batch.storeTokens

\* C27: every call of accrueDebtInternal adds one to exactly one of the
\* three totals, and the totals, less the turns the per-user catch counted,
\* add up to the number of calls.
FailedTurns == Cardinality({u \in TenantSet : turns[u].state = "failed"})

TallyBalanced ==
    batch.totalProcessed + batch.totalSkipped + batch.totalErrors - FailedTurns
        = batch.invocations

C27_OneCounterPerInvocation ==
    [][/\ TallyBalanced'
       /\ (batch'.invocations # batch.invocations) =>
            LET processed == batch'.totalProcessed - batch.totalProcessed
                skipped == batch'.totalSkipped - batch.totalSkipped
                errors == batch'.totalErrors - batch.totalErrors
            IN
            /\ batch'.invocations = batch.invocations + 1
            /\ {processed, skipped, errors} \subseteq {0, 1}
            /\ processed + skipped + errors = 1
            /\ (processed = 1) = (batch'.result = "processed")
            /\ (skipped = 1) = (batch'.result = "skipped")]_vars

\* a finished run with three calls: one skipped, one processed, one thrown
C27_Witness ==
    /\ batch.pc = "summary"
    /\ batch.invocations = 3
    /\ batch.totalSkipped = 1
    /\ batch.totalProcessed = 1
    /\ batch.totalErrors = 1

\* C28: a request of listUserSheets or validateSheet, and a tenant's turn of
\* the batch, refresh the token at most once and retry at most once; a
\* refresh or a retry that fails ends the request with an error status, or
\* the turn, and no step leads from a retry back to a refresh.
RefreshPcs == {"listRefresh", "valRefresh"}
RetryPcs == {"listRetry", "valRetryAccess", "valRetryStructure"}

C28_OneRefreshOneRetry ==
    [][/\ req'.refreshes <= 1
       /\ req'.retries <= 1
       /\ batch'.refreshes <= 1
       /\ (req.pc \in RefreshPcs /\ req' # req) =>
            \/ req'.pc \in {"listUpdate", "valUpdate"} /\ req'.accessToken = "fresh"
            \/ req'.pc = "done" /\ req'.status >= 400
       /\ (req.pc \in RetryPcs /\ req' # req) =>
            /\ req'.refreshes = req.refreshes
            /\ \/ req'.pc = "done" /\ req'.status = 200
               \/ req'.pc = "done" /\ req'.status >= 400
               \/ req.pc = "valRetryAccess" /\ req'.pc = "valRetryStructure"
       /\ (batch.pc = "refresh" /\ batch' # batch) =>
            \/ batch'.pc = "updateTokens" /\ turns' = turns
            \/ batch'.pc = "user" /\ turns'[Turn].state = "refreshFailed"]_vars

\* a listing whose token was refreshed once and whose retry failed: the
\* request ended with 401
C28_Witness ==
    /\ req.handler = "listUserSheets"
    /\ req.pc = "done"
    /\ req.refreshes = 1
    /\ req.retries = 1
    /\ req.status = 401

\* C29: a recompute of the only record of the ledger, with the expenses as
\* they were, rewrites it with the same previousBalance, charges, payments,
\* interests and statementBalance.
Figures(r) ==
    <<r.previousBalance, r.charges, r.payments, r.interests, r.statementBalance>>

C29_RecomputeIdempotent ==
    [][\A p \in Procs :
        (/\ inv[p].pc = "write"
         /\ inv'[p].pc = "updateDebt"
         /\ inv[p].recompute /\ inv[p].exists /\ inv[p].previousRowNumber # 0
         /\ Len(history) = 1)
            => (/\ Len(history') = 1
                /\ SameKey(history'[1], history[1].debtId, history[1].statementDate)
                /\ Figures(history'[1]) = Figures(history[1]))]_vars

\* C30: when no accrual is in progress, of two records of a debt with no
\* record of that debt dated between them, the later one's previousBalance
\* is the earlier one's statementBalance.
Consecutive(i, j) ==
    /\ history[i].debtId = history[j].debtId
    /\ history[i].statementDate < history[j].statementDate
    /\ ~\E k \in 1 .. Len(history) :
          /\ history[k].debtId = history[i].debtId
          /\ history[i].statementDate < history[k].statementDate
          /\ history[k].statementDate < history[j].statementDate

C30_ConsecutiveRecordsChain ==
    (\A p \in Procs : inv[p].pc \in Terminal) =>
        \A i, j \in 1 .. Len(history) :
            Consecutive(i, j) => history[j].previousBalance = history[i].statementBalance

\* C31: when an accrual has completed on a day the clock has not left, the
\* debt's stored balance is the statementBalance of the debt's record with
\* the greatest statementDate, plus the charges minus the payments dated
\* after that statementDate and up to that day.
LatestRecords(debtId) ==
    {i \in 1 .. Len(history) :
        /\ history[i].debtId = debtId
        /\ \A j \in 1 .. Len(history) :
              history[j].debtId = debtId
                  => history[j].statementDate <= history[i].statementDate}

ClockStart == MakeDate(2025, 0, 15)

C31_BalanceFollowsLatestRecord ==
    \A p \in Procs :
        (inv[p].pc = "done" /\ inv[p].result.status = "created" /\ today = ClockStart)
            => \A i \in LatestRecords(inv[p].debtId) :
                 LET statementDate == FromISODate(history[i].statementDate) IN
                 debts[inv[p].debtId].balance =
                     history[i].statementBalance
                         + SumRows(CountedRowsAfter(inv[p].debtId, statementDate, "charge"))
                         - SumRows(CountedRowsAfter(inv[p].debtId, statementDate, "payment"))

\* C32: when the batch has run on every day of a month and no accrual of
\* the active debt d1 (cut-off day 1..31) failed, the ledger has a
\* statement of d1 whose statementDate lies in that month.
MonthRun ==
    /\ today = LastOfMonth(today)
    /\ batch.pc = "summary"
    /\ inv["p1"].pc # "failed"

C32_MonthlyStatementPersisted ==
    MonthRun =>
        \E i \in 1 .. Len(history) :
            /\ history[i].debtId = "d1"
            /\ getFullYear(history[i].statementDate) = getFullYear(today)
            /\ getMonth(history[i].statementDate) = getMonth(today)

\* C33: the ledger never holds more than one record of d1 for the month's
\* statement; the run whose accrual wrote it counts it as processed; and a
\* run that finds the statement written and the balance updated leaves the
\* ledger and the debts as they are and, unless a store read fails, counts
\* the accrual as skipped.
Accrued == history # <<>> /\ debts["d1"].balance # DebtSheet["d1"].balance

Tallying == batch.pc = "accrue" /\ batch'.pc = "summary"

C33_RepeatedRunSkips ==
    [][/\ Len(history') <= 1
       /\ (Tallying /\ inv["p1"].result.status = "created") =>
            /\ batch'.totalProcessed = 1 /\ batch'.totalSkipped = 0
            /\ Len(history) = 1
            /\ toISODate(today) = history[1].statementDate
       /\ (Accrued /\ inv["p1"].pc \in {"getDebts", "getHistory"}) =>
            /\ history' = history /\ debts' = debts
            /\ (inv["p1"].pc = "getHistory" /\ inv'["p1"].pc # "getHistory")
                  => inv'["p1"].pc \in {"skipped", "failed"}
       /\ (Tallying /\ Accrued /\ inv["p1"].result.status = "skipped") =>
            /\ batch'.totalSkipped = 1 /\ batch'.totalProcessed = 0
            /\ batch'.totalErrors = 0
            /\ history' = history /\ debts' = debts]_vars

\* the second run of the cut-off day has ended: one record, counted skipped
C33_Witness ==
    /\ started = 2
    /\ batch.pc = "summary"
    /\ batch.invocations = 2
    /\ batch.totalSkipped = 1
    /\ Accrued
    /\ Len(history) = 1
    /\ getDate(today) = debts["d1"].cutOffDay[1]

\* C34: when the ledger holds the statement of an accrual that failed before
\* it updated the balance, an accrual of the same debt and statementDate
\* with recompute off, on the same day, stores the statement's running
\* balance on the debt.
UnfinishedAccrual(debtId) ==
    /\ Len(history) = 1
    /\ history[1].debtId = debtId
    /\ debts = DebtSheet
    /\ today = ClockStart

RunningBalance(r) ==
    r.statementBalance
        + SumRows(CountedRowsAfter(r.debtId, FromISODate(r.statementDate), "charge"))
        - SumRows(CountedRowsAfter(r.debtId, FromISODate(r.statementDate), "payment"))

C34_LaterAccrualRepairsBalance ==
    [][\A p \in Procs :
        (/\ UnfinishedAccrual(inv[p].debtId)
         /\ ~inv[p].recompute
         /\ inv[p].pc = "getHistory"
         /\ inv'[p].pc \in Terminal \ {"failed"}
         /\ toISODate(inv[p].statementDate) = history[1].statementDate)
            => debts'[inv[p].debtId].balance = RunningBalance(history[1])]_vars

\* C35: when a preview has returned computed figures (no record for the
\* resolved statementDate, or recompute set), the accrual of the same
\* parameters on the same store reaches its write, and the record it
\* persists has the preview's statementDate, dueDate, previousBalance,
\* charges, payments, interests, statementBalance, bonifiableInterest and
\* installmentBalance.
StatementFigures(r) ==
    <<r.statementDate, r.dueDate, r.previousBalance, r.charges, r.payments,
      r.interests, r.statementBalance, r.bonifiableInterest, r.installmentBalance>>

Previewed == inv["p2"].pc = "done" /\ inv["p2"].result.status = "preview"

C35_PreviewMatchesAccrual ==
    [][Previewed =>
        /\ inv'["p1"].pc \notin {"skipped", "failed"}
        /\ (inv["p1"].pc = "write" /\ inv'["p1"].pc = "updateDebt") =>
             \E i \in 1 .. Len(history') :
                 /\ history'[i] = inv["p1"].record[1]
                 /\ StatementFigures(history'[i])
                        = StatementFigures(inv["p2"].result.data[1])]_vars

\* the accrual has persisted, over the record of an earlier statement, what
\* the preview returned, interest carried over included
C35_Witness ==
    /\ Previewed
    /\ inv["p1"].pc = "updateDebt"
    /\ Len(history) = 2
    /\ inv["p1"].interestCarryOver > 0
    /\ history[2].previousBalance = history[1].statementBalance
    /\ StatementFigures(history[2]) = StatementFigures(inv["p2"].result.data[1])

\* C36: the scheduler's list holds no task when the scheduled tasks are
\* disabled in the configuration and after every stop(), and never more than
\* one daily accrual task, however many times start() is called.
C36_AtMostOneDailyTask ==
    [][/\ ~config.enabled => tasks' = <<>>
       /\ StopScheduler => tasks' = <<>>
       /\ Len(tasks') <= 1]_vars

\* C37: a category request that succeeds changes the Categories sheet of the
\* requesting tenant only; the category it created or updated is then among
\* the rows that tenant's list returns, the one it deleted is not.
C37_CategoriesOfOwnTenantOnly ==
    [][((CreateCategory \/ UpdateCategory \/ DeleteCategory)
            /\ http'.status \in {200, 201}) =>
        LET own == reqSheetsService(http'.user) IN
        /\ \A s \in Spreadsheets \ {own} : categories'[s] = categories[s]
        /\ http'.handler \in {"createCategory", "updateCategory"}
             => http'.data \subseteq categories'[own]
        /\ http'.handler = "deleteCategory"
             => http'.data \cap categories'[own] = {}]_vars

\* C38: the stored sheet id of a tenant changes only at the end of an
\* updateSheetId request of that tenant whose sheet id is a non-empty string,
\* after validateSheetAccess answered for that sheet with the requester's
\* token and, unless skipValidation is set, after validateSheetStructure
\* found every required sheet; a request answered with an error leaves every
\* stored sheet id as it was.
C38_SheetIdPersistedAfterValidation ==
    [][/\ sheetIds' # sheetIds =>
            LET sheetId == http.params.sheetId IN
            /\ http.handler = "updateSheetId"
            /\ sheetId.type = "string" /\ sheetId.value # ""
            /\ http.locals.sheetMetadata =
                 <<[spreadsheetId |-> sheetId.value, token |-> http.user]>>
            /\ ~http.params.skipValidation =>
                 /\ http.locals.validationResult # <<>>
                 /\ RequiredSheets \subseteq http.locals.validationResult[1].existingSheets
            /\ sheetIds' = [sheetIds EXCEPT ![http.user] = sheetId.value]
            /\ http'.status = 200
       /\ (http'.handler = "updateSheetId" /\ http'.pc = "done" /\ http'.status # 200)
            => sheetIds' = sheetIds]_vars

C38_Witness ==
    /\ http.handler = "updateSheetId"
    /\ http.status = 200
    /\ ~http.params.skipValidation
    /\ sheetIds["u1"] = "s3"

\* C39: a months parameter that is no number or is not positive is answered
\* 400 by the request's first step, before the debts are read; a plan of N
\* months has between 1 and N entries, its remaining balance never rises and
\* is never negative, every entry's principal lies between 0 and the balance
\* remaining before it, and no entry follows one whose remaining balance is 0.
IsNumeric(s) ==
    LET body == IF s # <<>> /\ Head(s) \in {"-", "+"} THEN Tail(s) ELSE s
    IN  body # <<>> /\ \A i \in 1 .. Len(body) : IsDigit(body[i])

RemainingBefore(plan, i) ==
    IF i = 1 THEN plan.balance ELSE plan.schedule[i - 1].remainingBalance

C39_InstallmentPlanShape ==
    [][/\ (GetDebtInstallments
             /\ (~IsNumeric(http'.params.months)
                   \/ parseInt(http'.params.months)[1] <= 0))
            => http'.pc = "done" /\ http'.status = 400
       /\ (InstallmentsRespond /\ http'.status = 200) =>
            LET plan == http'.data[1]
                n == Len(plan.schedule)
            IN  /\ 1 <= n /\ n <= http.locals.months
                /\ \A i \in 1 .. n :
                     /\ plan.schedule[i].remainingBalance >= 0
                     /\ plan.schedule[i].remainingBalance <= RemainingBefore(plan, i)
                     /\ 0 <= plan.schedule[i].principal
                     /\ plan.schedule[i].principal <= RemainingBefore(plan, i)
                /\ \A i \in 1 .. n - 1 : plan.schedule[i].remainingBalance # 0]_vars

====
